---------------------------- MODULE Spec2Model ----------------------------
(***************************************************************************)
(* A model of the block-based translation pipeline of                      *)
(* AIMultiModalTranslating:                                                *)
(*   - OllamaTranslator.translate_text  (reply sanitization and fallback)  *)
(*   - DocumentTranslator.translate_blocks (semaphore-bounded tasks)       *)
(*   - chunk_blocks (token-bounded chunks with one block of overlap)       *)
(*   - extract_docx / rebuild_docx (run substitution in a copied document) *)
(*   - extract_pptx / rebuild_pptx (the same for the slides' paragraphs)   *)
(*   - rebuild_pdf (pages and drawing calls of the ReportLab canvas)       *)
(*   - _format_srt_timestamp (binary64 arithmetic, computed exactly)       *)
(*   - rebuild_audio_output (subtitle file, synthesis, fallback)           *)
(*   - TranslationPipeline.translate_file (naming of the returned file)    *)
(*   - run_translation and main (a job through extraction, translation,    *)
(*     reconstruction, teardown; the job record and the error shown)       *)
(*   - extract_pdf (words into lines, paragraphs and blocks)               *)
(*                                                                         *)
(* Strings are sequences of one-character strings, so that strip, lower,   *)
(* split, startswith and join are computed and not assumed.                *)
(***************************************************************************)
EXTENDS Integers, Sequences, FiniteSets, TLC

VARIABLES
    \* one call of OllamaTranslator.translate_text
    tt_text,                 \* the argument `text`
    tt_outcome,              \* what the translation service answered
    tt_result,               \* the returned string
    tt_pc,                   \* "call" | "returned"
    \* one call of DocumentTranslator.translate_blocks
    blocks,                  \* the argument `blocks`
    translation_concurrency, \* config.translation_concurrency
    sem_value,               \* free permits of self.semaphore
    task_pc,                 \* per task: "waiting" | "in_flight" | "done"
    task_outcome,            \* per task: what the service answered it
    translations,            \* the dict `translations`
    progress_calls,          \* the calls made to progress_callback, in order
    tb_pc,                   \* "gather" | "returned"
    \* one call of chunk_blocks
    cb_blocks,               \* len(block.text) of every input block
    max_tokens,              \* the argument `max_tokens`
    chunks,                  \* the list `chunks` (blocks named by position)
    current_chunk,           \* the list `current_chunk`
    current_tokens,          \* `current_tokens`, in quarters of a token
    cb_i,                    \* the loop index `i`, 1-based
    cb_pc,                   \* "loop" | "returned"
    \* extract_docx followed by rebuild_docx
    source_doc,              \* the document at extracted.source_path
    extracted,               \* extracted.blocks
    trans_map,               \* the argument `translations` of rebuild_docx
    output_doc,              \* the document saved at output_path
    dx_pc,                   \* "extract" | "rebuild" | "saved" | "raised"
    \* extract_pptx followed by rebuild_pptx
    px_source,               \* the presentation at extracted.source_path
    px_extracted,            \* extracted.blocks
    px_trans,                \* the argument `translations` of rebuild_pptx
    px_output,               \* the presentation at output_path
    px_pc,                   \* "extract" | "rebuild" | "saved" | "raised"
    \* one call of rebuild_pdf
    pd_page_sizes,           \* (width, height) of every page of the original
    pd_blocks,               \* extracted.blocks
    pd_trans,                \* the argument `translations`
    pd_pages,                \* the pages of the file written at output_path
    pd_pc,                   \* "rebuild" | "saved"
    \* one call of rebuild_audio_output
    au_blocks,               \* extracted.blocks
    au_trans,                \* the argument `translations`
    au_env,                  \* what is installed and what the calls answer
    au_output_path,          \* the argument `output_path`
    au_result,               \* the returned path and the file written there
    au_pc,                   \* "rebuild" | "returned"
    \* one call of _format_srt_timestamp
    ts_millis,               \* the time, in whole milliseconds
    ts_result,               \* the returned string
    ts_pc,                   \* "call" | "returned"
    \* one call of TranslationPipeline.translate_file
    tf_input,                \* the argument `input_path`
    tf_env,                  \* what is installed and what the calls answer
    tf_result,               \* the returned path
    tf_pc,                   \* "call" | "returned"
    \* one page handed to extract_pdf
    pe_words,                \* per page: page.extract_words(), in the order given
    pe_blocks,               \* the blocks made of the page
    pe_pc,                   \* "extract" | "returned"
    \* one job: run_translation of the API, or main of the command line
    jb_mode,                 \* "api" | "cli"
    jb_source,               \* the input file: extension, fault, content
    jb_env,                  \* what the calls of the job answer
    job,                     \* the JobRecord jobs[job_id]
    jb_blocks,               \* extracted.blocks
    jb_translations,         \* the dict `translations` of translate_blocks
    jb_pipeline,             \* the pipeline: translator, client, requests
    jb_raised,               \* str(e) of the exception that ended the job
    jb_result,               \* the path translate_file returned
    jb_pc                    \* the position of the job

ttVars == <<tt_text, tt_outcome, tt_result, tt_pc>>
tbVars == <<blocks, translation_concurrency, sem_value, task_pc,
            task_outcome, translations, progress_calls, tb_pc>>
cbVars == <<cb_blocks, max_tokens, chunks, current_chunk, current_tokens,
            cb_i, cb_pc>>
dxVars == <<source_doc, extracted, trans_map, output_doc, dx_pc>>
pxVars == <<px_source, px_extracted, px_trans, px_output, px_pc>>
pdVars == <<pd_page_sizes, pd_blocks, pd_trans, pd_pages, pd_pc>>
auVars == <<au_blocks, au_trans, au_env, au_output_path, au_result, au_pc>>
tsVars == <<ts_millis, ts_result, ts_pc>>
tfVars == <<tf_input, tf_env, tf_result, tf_pc>>
peVars == <<pe_words, pe_blocks, pe_pc>>
jbVars == <<jb_mode, jb_source, jb_env, job, jb_blocks, jb_translations,
            jb_pipeline, jb_raised, jb_result, jb_pc>>
jobVars == <<peVars, jbVars>>
outVars == <<pxVars, pdVars, auVars, tsVars, tfVars, jobVars>>
vars == <<ttVars, tbVars, cbVars, dxVars, outVars>>

-----------------------------------------------------------------------------
(* Bounds of the model.                                                    *)

MaxReplyLines == 3      \* lines of a model reply
MaxBlocks == 3          \* blocks handed to translate_blocks
MaxConcurrency == 2     \* largest configured translation_concurrency
MaxChunkBlocks == 4     \* blocks handed to chunk_blocks
MaxTokens == 2          \* largest max_tokens handed to chunk_blocks
MaxTextLen == 6         \* longest block text handed to chunk_blocks
MaxParas == 2           \* body paragraphs of a DOCX document
MaxCols == 2            \* cells of the table row of a DOCX document
MaxSlides == 2          \* slides of a presentation
MaxIndex == 3           \* largest index, either sign, of a caller's block
MaxPages == 3           \* pages of a PDF file
FracLimbs == 7          \* digits of a float below the unit
MaxMillis == 1100       \* longest time of the dense range, in milliseconds
MaxSegments == 2        \* segments of an audio file

-----------------------------------------------------------------------------
(* Python string operations on sequences of characters.                    *)

None == "None"

NL == "\n"

\* the characters str.strip() removes that occur in the model
Whitespace == {" ", "\t", "\r", NL}

UpperLetters == <<"A","B","C","D","E","F","G","H","I","J","K","L","M",
                  "N","O","P","Q","R","S","T","U","V","W","X","Y","Z">>
LowerLetters == <<"a","b","c","d","e","f","g","h","i","j","k","l","m",
                  "n","o","p","q","r","s","t","u","v","w","x","y","z">>

\* str.lower() on one character
LowerChar(c) ==
    IF \E k \in 1..26 : UpperLetters[k] = c
    THEN LowerLetters[CHOOSE k \in 1..26 : UpperLetters[k] = c]
    ELSE c

\* str.lower()
Lower(s) == [k \in 1..Len(s) |-> LowerChar(s[k])]

RECURSIVE LStrip(_)
LStrip(s) ==
    IF s # <<>> /\ Head(s) \in Whitespace THEN LStrip(Tail(s)) ELSE s

RECURSIVE RStrip(_)
RStrip(s) ==
    IF s # <<>> /\ s[Len(s)] \in Whitespace
    THEN RStrip(SubSeq(s, 1, Len(s) - 1))
    ELSE s

\* str.strip()
Strip(s) == RStrip(LStrip(s))

\* str.startswith(prefix)
StartsWith(s, prefix) ==
    /\ Len(prefix) <= Len(s)
    /\ SubSeq(s, 1, Len(prefix)) = prefix

\* str.split("\n"): always at least one piece
RECURSIVE SplitLines(_)
SplitLines(s) ==
    IF \E k \in 1..Len(s) : s[k] = NL
    THEN LET k == CHOOSE j \in 1..Len(s) :
                      s[j] = NL /\ \A m \in 1..(j - 1) : s[m] # NL
         IN  <<SubSeq(s, 1, k - 1)>> \o SplitLines(SubSeq(s, k + 1, Len(s)))
    ELSE <<s>>

\* "\n".join(lines)
RECURSIVE JoinLines(_)
JoinLines(lines) ==
    IF lines = <<>> THEN <<>>
    ELSE IF Len(lines) = 1 THEN lines[1]
    ELSE lines[1] \o <<NL>> \o JoinLines(Tail(lines))

-----------------------------------------------------------------------------
(* OllamaTranslator.translate_text                                         *)

commentary_prefixes ==
    << <<"t", "r", "a", "n", "s", "l", "a", "t", "i", "o", "n", ":">>,
       <<"t", "r", "a", "n", "s", "l", "a", "t", "i", "o", "n", " ", ":">>,
       <<"h", "e", "r", "e", " ", "i", "s">>,
       <<"h", "e", "r", "e", "'", "s">>,
       <<"v", "o", "i", "c", "i">>,
       <<"l", "e", "s", " ", "r", "e_grave", "g", "l", "e", "s">>,
       <<"t", "h", "e", " ", "f", "o", "l", "l", "o", "w", "i", "n", "g">>,
       <<"r", "u", "l", "e", "s", ":">>,
       <<"r", "e_grave", "g", "l", "e", "s", ":">>,
       <<"n", "o", "t", "e", ":">>,
       <<"n", "o", "t", "e", " ", ":">>,
       <<"r", "e", "m", "a", "r", "q", "u", "e", ":">>,
       <<"r", "e", "m", "a", "r", "q", "u", "e", " ", ":">>,
       <<"c", "o", "n", "t", "e", "x", "t", ":">>,
       <<"c", "o", "n", "t", "e", "x", "t", "e", ":">>,
       <<"h", "i", "n", "t", ":">>,
       <<"i", "n", "d", "i", "c", "e", ":">> >>

metadata_keywords ==
    { <<"t", "r", "a", "n", "s", "l", "a", "t", "i", "o", "n">>,
      <<"t", "r", "a", "d", "u", "c", "t", "i", "o", "n">>,
      <<"r", "u", "l", "e", "s">>,
      <<"r", "e_grave", "g", "l", "e", "s">> }

\* the two `continue` tests of the loop, on a stripped non-empty line
IsCommentary(line_stripped) ==
    LET line_lower == Lower(line_stripped)
    IN  \/ \E k \in 1..Len(commentary_prefixes) :
               StartsWith(line_lower, Lower(commentary_prefixes[k]))
        \/ line_lower \in metadata_keywords

\* the loop `for line in lines` building filtered_lines
RECURSIVE FilterLinesDropBlank(_)
FilterLinesDropBlank(lines) ==
    IF lines = <<>> THEN <<>>
    ELSE LET line_stripped == Strip(Head(lines))
         IN  IF line_stripped = <<>> THEN FilterLinesDropBlank(Tail(lines))
             ELSE IF IsCommentary(line_stripped)
                  THEN FilterLinesDropBlank(Tail(lines))
             ELSE <<line_stripped>> \o FilterLinesDropBlank(Tail(lines))

RECURSIVE FilterLines(_)
FilterLines(lines) ==
    IF lines = <<>> THEN <<>>
    ELSE LET line_stripped == Strip(Head(lines))
         IN  IF line_stripped = <<>> THEN << <<>> >> \o FilterLines(Tail(lines))
             ELSE IF IsCommentary(line_stripped) THEN FilterLines(Tail(lines))
             ELSE <<line_stripped>> \o FilterLines(Tail(lines))


\* `while filtered_lines and not filtered_lines[0]: filtered_lines.pop(0)`
RECURSIVE PopLeadingEmpty(_)
PopLeadingEmpty(lines) ==
    IF lines # <<>> /\ Head(lines) = <<>>
    THEN PopLeadingEmpty(Tail(lines))
    ELSE lines

\* `while filtered_lines and not filtered_lines[-1]: filtered_lines.pop()`
RECURSIVE PopTrailingEmpty(_)
PopTrailingEmpty(lines) ==
    IF lines # <<>> /\ lines[Len(lines)] = <<>>
    THEN PopTrailingEmpty(SubSeq(lines, 1, Len(lines) - 1))
    ELSE lines

\* What the service answered to one request.  "connect_error": client.post
\* raises; "http_status": raise_for_status raises on a non-2xx response;
\* "bad_json": response.json() raises or the body has no usable message;
\* "ok": data["message"]["content"] is `content`.
ErrorKinds == {"connect_error", "http_status", "bad_json"}

Failure(kind) == [kind |-> kind, content |-> <<>>]
Reply(content) == [kind |-> "ok", content |-> content]

SanitizeReplyRaw(text, content) ==
    JoinLines(PopTrailingEmpty(PopLeadingEmpty(FilterLines(SplitLines(Strip(content))))))

\* the body of the try block, lines 106-152
SanitizeReply(text, content) ==
    LET stripped == Strip(content)
        lines == SplitLines(stripped)
        filtered_lines == FilterLines(lines)
        translated ==
            IF filtered_lines # <<>>
            THEN JoinLines(PopTrailingEmpty(PopLeadingEmpty(filtered_lines)))
            ELSE Strip(stripped)
    IN  IF translated # <<>> THEN translated ELSE text

\* a translate_text whose except branch returns nothing usable
translate_text_no_fallback(text, outcome) ==
    IF outcome.kind \in ErrorKinds
    THEN <<>>
    ELSE SanitizeReply(text, outcome.content)

translate_text(text, outcome) ==
    IF outcome.kind \in ErrorKinds
    THEN text                                  \* except Exception: return text
    ELSE SanitizeReply(text, outcome.content)

-----------------------------------------------------------------------------
(* Inputs of the translate_text specification.                             *)

SourceTexts == { <<"H", "i">>, <<"G", "o">> }

SampleLines ==
    { <<>>,                                        \* an empty line
      <<" ">>,                                     \* a whitespace-only line
      <<"o", "k">>,                                \* content
      <<" ", "o", "k">>,                           \* indented content
      <<"N", "o", "t", "e", ":", " ", "a">>,       \* commentary prefix
      <<"R", "u", "l", "e", "s">>,                 \* bare metadata keyword
      <<"r", "u", "l", "e", "s", "x">> }           \* content, not a keyword

SeqsUpTo(S, n) == UNION { [1..k -> S] : k \in 1..n }

Replies == { JoinLines(ls) : ls \in SeqsUpTo(SampleLines, MaxReplyLines) }

Outcomes == { Failure(k) : k \in ErrorKinds } \cup { Reply(c) : c \in Replies }

IdleTt ==
    /\ tt_text = <<>>
    /\ tt_outcome = Failure("connect_error")
    /\ tt_result = None
    /\ tt_pc = "idle"

IdleTb ==
    /\ blocks = <<>>
    /\ translation_concurrency = 0
    /\ sem_value = 0
    /\ task_pc = <<>>
    /\ task_outcome = <<>>
    /\ translations = <<>>
    /\ progress_calls = <<>>
    /\ tb_pc = "idle"

IdleCb ==
    /\ cb_blocks = <<>>
    /\ max_tokens = 0
    /\ chunks = <<>>
    /\ current_chunk = <<>>
    /\ current_tokens = 0
    /\ cb_i = 0
    /\ cb_pc = "idle"

IdleDx ==
    /\ source_doc = <<>>
    /\ extracted = <<>>
    /\ trans_map = <<>>
    /\ output_doc = <<>>
    /\ dx_pc = "idle"

IdlePx ==
    /\ px_source = <<>>
    /\ px_extracted = <<>>
    /\ px_trans = <<>>
    /\ px_output = <<>>
    /\ px_pc = "idle"

IdlePd ==
    /\ pd_page_sizes = <<>>
    /\ pd_blocks = <<>>
    /\ pd_trans = <<>>
    /\ pd_pages = <<>>
    /\ pd_pc = "idle"

IdleAu ==
    /\ au_blocks = <<>>
    /\ au_trans = <<>>
    /\ au_env = <<>>
    /\ au_output_path = <<>>
    /\ au_result = <<>>
    /\ au_pc = "idle"

IdleTs ==
    /\ ts_millis = 0
    /\ ts_result = <<>>
    /\ ts_pc = "idle"

IdleTf ==
    /\ tf_input = <<>>
    /\ tf_env = <<>>
    /\ tf_result = <<>>
    /\ tf_pc = "idle"

IdlePe ==
    /\ pe_words = <<>>
    /\ pe_blocks = <<>>
    /\ pe_pc = "idle"

IdleJb ==
    /\ jb_mode = "idle"
    /\ jb_source = <<>>
    /\ jb_env = <<>>
    /\ job = <<>>
    /\ jb_blocks = <<>>
    /\ jb_translations = <<>>
    /\ jb_pipeline = <<>>
    /\ jb_raised = ""
    /\ jb_result = <<>>
    /\ jb_pc = "idle"

IdleJob == IdlePe /\ IdleJb

IdleOut == IdlePx /\ IdlePd /\ IdleAu /\ IdleTs /\ IdleTf /\ IdleJob

InitSanitize ==
    /\ tt_text \in SourceTexts
    /\ tt_outcome \in Outcomes
    /\ tt_result = None
    /\ tt_pc = "call"
    /\ IdleTb /\ IdleCb /\ IdleDx /\ IdleOut

\* one call of translate_text, from the request to the return
TranslateText ==
    /\ tt_pc = "call"
    /\ tt_result' = translate_text(tt_text, tt_outcome)
    /\ tt_pc' = "returned"
    /\ UNCHANGED <<tt_text, tt_outcome, tbVars, cbVars, dxVars, outVars>>

NextSanitize == TranslateText

SpecSanitize == InitSanitize /\ [][NextSanitize]_vars

-----------------------------------------------------------------------------
(* Claims about translate_text.                                            *)

\* the lines of the reply as the loop sees them
ReplyLines(content) == SplitLines(Strip(content))

IsBlankLine(line) == \A k \in 1..Len(line) : line[k] \in Whitespace

\* "its stripped, lowercased form starts with one of the fixed commentary
\* prefixes or equals one of the bare metadata keywords"
DroppedLine(line) ==
    LET form == Lower(Strip(line))
    IN  \/ \E k \in 1..Len(commentary_prefixes) :
              /\ Len(form) >= Len(commentary_prefixes[k])
              /\ \A j \in 1..Len(commentary_prefixes[k]) :
                     form[j] = commentary_prefixes[k][j]
        \/ \E w \in metadata_keywords : form = w

\* positions of the lines that carry content
KeptPositions(lines) ==
    { k \in 1..Len(lines) : ~IsBlankLine(lines[k]) /\ ~DroppedLine(lines[k]) }

Min(S) == CHOOSE x \in S : \A y \in S : x <= y
Max(S) == CHOOSE x \in S : \A y \in S : x >= y

\* the lines from the first to the last kept one, commentary removed,
\* blank lines as "", kept lines stripped or not
RECURSIVE ExpectedFrom(_, _, _, _)
ExpectedFrom(lines, lo, hi, stripKept) ==
    IF lo > hi THEN <<>>
    ELSE LET rest == ExpectedFrom(lines, lo + 1, hi, stripKept)
         IN  IF IsBlankLine(lines[lo]) THEN << <<>> >> \o rest
             ELSE IF DroppedLine(lines[lo]) THEN rest
             ELSE <<IF stripKept THEN Strip(lines[lo]) ELSE lines[lo]>> \o rest

ExpectedText(content, stripKept) ==
    LET lines == ReplyLines(content)
        kept == KeptPositions(lines)
    IN  JoinLines(ExpectedFrom(lines, Min(kept), Max(kept), stripKept))

AnsweredOk == tt_pc = "returned" /\ tt_outcome.kind = "ok"

\* C5: when every non-blank line of the reply is commentary, the result is
\* the raw reply if it is non-empty and the source text otherwise, with or
\* without blank lines between the commentary lines.
C5_RawReplyFallback ==
    (AnsweredOk /\ KeptPositions(ReplyLines(tt_outcome.content)) = {})
        => tt_result = IF Strip(tt_outcome.content) # <<>>
                       THEN Strip(tt_outcome.content)
                       ELSE tt_text

\* C6 as stated: the result is the reply's non-commentary lines themselves,
\* in order, trimmed of leading and trailing blank lines, internal blank
\* lines preserved.
C6_ExactLines ==
    (AnsweredOk /\ KeptPositions(ReplyLines(tt_outcome.content)) # {})
        => tt_result = ExpectedText(tt_outcome.content, FALSE)

\* C6 amended: the same, each kept line with its own leading and trailing
\* whitespace removed.
C6_StrippedLines ==
    (AnsweredOk /\ KeptPositions(ReplyLines(tt_outcome.content)) # {})
        => tt_result = ExpectedText(tt_outcome.content, TRUE)

\* a reply with a commentary line, then content, a blank line, content
C6_Witness ==
    /\ AnsweredOk
    /\ LET lines == ReplyLines(tt_outcome.content)
       IN  /\ Len(lines) = 3
           /\ 1 \in KeptPositions(lines) /\ 3 \in KeptPositions(lines)
           /\ IsBlankLine(lines[2])
    /\ tt_result = <<"o", "k", NL, NL, "r", "u", "l", "e", "s", "x">>

-----------------------------------------------------------------------------
(* DocumentTranslator.translate_blocks                                     *)

\* Blocks carry the ids the extractors give them (para_<i>, seg_<i>, ...):
\* the position of the block, so ids are distinct.  Every block has a text
\* of its own ("Hi!", "Hi!!", ...), so that an entry holding the text of
\* another block shows.
BlockText(i) == <<"H", "i">> \o [k \in 1..i |-> "!"]

BlockLists ==
    { [i \in 1..n |-> [block_id |-> i, text |-> BlockText(i)]] :
          n \in 1..MaxBlocks }

\* what the service may answer to one block's request
BlockOutcomes ==
    { Failure(k) : k \in ErrorKinds }
        \cup { Reply(<<"o", "k">>), Reply(<<>>) }

Tasks == 1..Len(blocks)

InFlight == { i \in Tasks : task_pc[i] = "in_flight" }

\* DocumentTranslator.__init__ and the head of translate_blocks: the
\* semaphore holds translation_concurrency permits, `translations` is
\* empty and one task per block has been handed to gather.
InitTranslate ==
    /\ blocks \in BlockLists
    /\ translation_concurrency \in 1..MaxConcurrency
    /\ sem_value = translation_concurrency
    /\ task_pc = [i \in 1..Len(blocks) |-> "waiting"]
    /\ task_outcome = [i \in 1..Len(blocks) |-> None]
    /\ translations = <<>>
    /\ progress_calls = <<>>
    /\ tb_pc = "gather"
    /\ IdleTt /\ IdleCb /\ IdleDx /\ IdleOut

\* an acquire that never waits for a permit
AcquireUnbounded(i) ==
    /\ tb_pc = "gather"
    /\ task_pc[i] = "waiting"
    /\ sem_value' = sem_value - 1
    /\ task_pc' = [task_pc EXCEPT ![i] = "in_flight"]
    /\ UNCHANGED <<blocks, translation_concurrency, task_outcome,
                   translations, progress_calls, tb_pc>>
    /\ UNCHANGED <<ttVars, cbVars, dxVars, outVars>>

\* translate_one up to its await: `async with self.semaphore` takes a
\* permit when one is free, then translate_text posts the request.
Acquire(i) ==
    /\ tb_pc = "gather"
    /\ task_pc[i] = "waiting"
    /\ sem_value > 0
    /\ sem_value' = sem_value - 1
    /\ task_pc' = [task_pc EXCEPT ![i] = "in_flight"]
    /\ UNCHANGED <<blocks, translation_concurrency, task_outcome,
                   translations, progress_calls, tb_pc>>
    /\ UNCHANGED <<ttVars, cbVars, dxVars, outVars>>

\* `translations[block.block_id] = translated`
Store(tr, block_id, translated) ==
    [k \in (DOMAIN tr) \cup {block_id} |->
        IF k = block_id THEN translated ELSE tr[k]]

\* a completion that stores nothing when the request failed
CompleteSkipFailed(i, outcome) ==
    /\ tb_pc = "gather"
    /\ task_pc[i] = "in_flight"
    /\ LET translated == translate_text(blocks[i].text, outcome)
           stored == IF outcome.kind \in ErrorKinds
                     THEN translations
                     ELSE Store(translations, blocks[i].block_id, translated)
       IN  /\ translations' = stored
           /\ progress_calls' =
                  Append(progress_calls,
                         [done |-> Cardinality(DOMAIN stored),
                          total |-> Len(blocks),
                          block_id |-> blocks[i].block_id])
    /\ task_outcome' = [task_outcome EXCEPT ![i] = outcome]
    /\ sem_value' = sem_value + 1
    /\ task_pc' = [task_pc EXCEPT ![i] = "done"]
    /\ UNCHANGED <<blocks, translation_concurrency, tb_pc>>
    /\ UNCHANGED <<ttVars, cbVars, dxVars, outVars>>

\* a completion that reports the size of the map before its own store
CompleteReportBefore(i, outcome) ==
    /\ tb_pc = "gather"
    /\ task_pc[i] = "in_flight"
    /\ LET translated == translate_text(blocks[i].text, outcome)
       IN  /\ translations' =
                  Store(translations, blocks[i].block_id, translated)
           /\ progress_calls' =
                  Append(progress_calls,
                         [done |-> Cardinality(DOMAIN translations),
                          total |-> Len(blocks),
                          block_id |-> blocks[i].block_id])
    /\ task_outcome' = [task_outcome EXCEPT ![i] = outcome]
    /\ sem_value' = sem_value + 1
    /\ task_pc' = [task_pc EXCEPT ![i] = "done"]
    /\ UNCHANGED <<blocks, translation_concurrency, tb_pc>>
    /\ UNCHANGED <<ttVars, cbVars, dxVars, outVars>>

\* translate_one from the answer of the service to its end: translate_text
\* returns, the entry is stored, progress_callback is called with the size
\* of the map, and leaving the `async with` gives the permit back.  Nothing
\* in between awaits, so no other task runs in between.
Complete(i, outcome) ==
    /\ tb_pc = "gather"
    /\ task_pc[i] = "in_flight"
    /\ LET translated == translate_text(blocks[i].text, outcome)
       IN  /\ translations' =
                  Store(translations, blocks[i].block_id, translated)
           /\ progress_calls' =
                  Append(progress_calls,
                         [done |-> Cardinality(DOMAIN translations'),
                          total |-> Len(blocks),
                          block_id |-> blocks[i].block_id])
    /\ task_outcome' = [task_outcome EXCEPT ![i] = outcome]
    /\ sem_value' = sem_value + 1
    /\ task_pc' = [task_pc EXCEPT ![i] = "done"]
    /\ UNCHANGED <<blocks, translation_concurrency, tb_pc>>
    /\ UNCHANGED <<ttVars, cbVars, dxVars, outVars>>

\* `await asyncio.gather(*tasks)` ends and the map is returned
GatherReturn ==
    /\ tb_pc = "gather"
    /\ \A i \in Tasks : task_pc[i] = "done"
    /\ tb_pc' = "returned"
    /\ UNCHANGED <<blocks, translation_concurrency, sem_value, task_pc,
                   task_outcome, translations, progress_calls>>
    /\ UNCHANGED <<ttVars, cbVars, dxVars, outVars>>

NextTranslate ==
    \/ \E i \in Tasks : Acquire(i)
    \/ \E i \in Tasks : \E outcome \in BlockOutcomes : Complete(i, outcome)
    \/ GatherReturn

SpecTranslate == InitTranslate /\ [][NextTranslate]_vars

-----------------------------------------------------------------------------
(* Claims about translate_blocks.                                          *)

BlockIds == { blocks[i].block_id : i \in Tasks }

Failed(i) == task_pc[i] = "done" /\ task_outcome[i].kind \in ErrorKinds

\* C1: for a non-empty list of blocks and any pattern of service outcomes,
\* the key set of the returned map is exactly the set of the block ids.
C1_KeySetIsBlockIds ==
    tb_pc = "returned" => DOMAIN translations = BlockIds

\* total failure of the service on a batch of several blocks
C1_Witness ==
    /\ tb_pc = "returned"
    /\ Len(blocks) >= 2
    /\ \A i \in Tasks : Failed(i)

\* C2: a block whose request fails gets its own source text as its entry,
\* the batch still goes on to return, and every entry is decided by the
\* outcome of its own block alone.
C2_FailureIsLocal ==
    /\ \A i \in Tasks :
           Failed(i) =>
               /\ blocks[i].block_id \in DOMAIN translations
               /\ translations[blocks[i].block_id] = blocks[i].text
    /\ \A j \in Tasks :
           task_pc[j] = "done" =>
               translations[blocks[j].block_id] =
                   IF task_outcome[j].kind \in ErrorKinds
                   THEN blocks[j].text
                   ELSE SanitizeReply(blocks[j].text, task_outcome[j].content)
    /\ (tb_pc = "gather" /\ \E i \in Tasks : Failed(i))
           => ENABLED NextTranslate

\* one block failed, another one was translated, and the call returned
C2_Witness ==
    /\ tb_pc = "returned"
    /\ \E i, j \in Tasks :
           /\ Failed(i)
           /\ task_outcome[j].kind = "ok"
           /\ translations[blocks[j].block_id] = <<"o", "k">>
           /\ translations[blocks[j].block_id] # blocks[j].text

\* C3: at most translation_concurrency requests are in flight.
C3_InFlightBounded ==
    /\ Cardinality(InFlight) <= translation_concurrency
    /\ sem_value >= 0

\* the cap binds: every permit is taken and a task is kept waiting
C3_Witness ==
    /\ translation_concurrency >= 2
    /\ Cardinality(InFlight) = translation_concurrency
    /\ \E i \in Tasks : task_pc[i] = "waiting"

CallsWithTotal ==
    { p \in 1..Len(progress_calls) :
          progress_calls[p].done = progress_calls[p].total }

\* C4: progress_callback is called once per block id, done_count never
\* decreases, and done_count = total_count in exactly one call, the one
\* made when the last task completes.
C4_ProgressCalls ==
    /\ Len(progress_calls) = Cardinality({ i \in Tasks : task_pc[i] = "done" })
    /\ \A p, q \in 1..Len(progress_calls) :
           /\ (p # q => progress_calls[p].block_id # progress_calls[q].block_id)
           /\ (p < q => progress_calls[p].done <= progress_calls[q].done)
    /\ \A p \in 1..Len(progress_calls) :
           /\ progress_calls[p].total = Len(blocks)
           /\ \E i \in Tasks : /\ progress_calls[p].block_id = blocks[i].block_id
                               /\ task_pc[i] = "done"
    /\ \A p \in CallsWithTotal :
           /\ p = Len(progress_calls)
           /\ \A i \in Tasks : task_pc[i] = "done"
    /\ (\A i \in Tasks : task_pc[i] = "done") => Cardinality(CallsWithTotal) = 1
    /\ tb_pc = "returned" =>
           { progress_calls[p].block_id : p \in 1..Len(progress_calls) }
               = BlockIds

\* three blocks complete in an order that is not the input order
C4_Witness ==
    /\ tb_pc = "returned"
    /\ Len(blocks) = 3
    /\ progress_calls[1].block_id = 3
    /\ progress_calls[3].block_id = 2
    /\ progress_calls[3].done = 3

-----------------------------------------------------------------------------
(* chunk_blocks                                                            *)

\* The code estimates a block at len(block.text) / 4 tokens, a float.  The
\* model counts in quarters of a token, which is exact: current_tokens is
\* the sum of the lengths and the budget is 4 * max_tokens.
QuartersPerToken == 4

\* A block is its position in the input; cb_blocks[i] is len(text).
InitChunk ==
    /\ cb_blocks \in UNION { [1..n -> 0..MaxTextLen] : n \in 0..MaxChunkBlocks }
    /\ max_tokens \in 1..MaxTokens
    /\ chunks = <<>>
    /\ current_chunk = <<>>
    /\ current_tokens = 0
    /\ cb_i = 1
    /\ cb_pc = "loop"
    /\ IdleTt /\ IdleTb /\ IdleDx /\ IdleOut

Last(s) == s[Len(s)]

\* an iteration that opens the new chunk empty, without the overlap block
ChunkStepNoOverlap ==
    /\ cb_pc = "loop"
    /\ cb_i <= Len(cb_blocks)
    /\ LET block_tokens == cb_blocks[cb_i]
           close == /\ current_tokens + block_tokens
                           > QuartersPerToken * max_tokens
                    /\ current_chunk # <<>>
       IN  /\ chunks' = IF close THEN Append(chunks, current_chunk) ELSE chunks
           /\ current_chunk' = IF close THEN <<cb_i>>
                               ELSE Append(current_chunk, cb_i)
           /\ current_tokens' = IF close THEN block_tokens
                                ELSE current_tokens + block_tokens
    /\ cb_i' = cb_i + 1
    /\ UNCHANGED <<cb_blocks, max_tokens, cb_pc>>
    /\ UNCHANGED <<ttVars, tbVars, dxVars, outVars>>

\* an iteration that carries the last two blocks into the new chunk
ChunkStepOverlapTwo ==
    /\ cb_pc = "loop"
    /\ cb_i <= Len(cb_blocks)
    /\ LET block_tokens == cb_blocks[cb_i]
           close == /\ current_tokens + block_tokens
                           > QuartersPerToken * max_tokens
                    /\ current_chunk # <<>>
           n == Len(current_chunk)
           carried == IF n >= 2 THEN SubSeq(current_chunk, n - 1, n)
                      ELSE current_chunk
           carried_tokens == IF n >= 2
                             THEN cb_blocks[current_chunk[n - 1]]
                                      + cb_blocks[current_chunk[n]]
                             ELSE cb_blocks[current_chunk[n]]
       IN  /\ chunks' = IF close THEN Append(chunks, current_chunk) ELSE chunks
           /\ current_chunk' = IF close THEN Append(carried, cb_i)
                               ELSE Append(current_chunk, cb_i)
           /\ current_tokens' = IF close THEN carried_tokens + block_tokens
                                ELSE current_tokens + block_tokens
    /\ cb_i' = cb_i + 1
    /\ UNCHANGED <<cb_blocks, max_tokens, cb_pc>>
    /\ UNCHANGED <<ttVars, tbVars, dxVars, outVars>>

\* an iteration that does not count the carried block in current_tokens
ChunkStepForgetOverlapTokens ==
    /\ cb_pc = "loop"
    /\ cb_i <= Len(cb_blocks)
    /\ LET block_tokens == cb_blocks[cb_i]
           close == /\ current_tokens + block_tokens
                           > QuartersPerToken * max_tokens
                    /\ current_chunk # <<>>
       IN  /\ chunks' = IF close THEN Append(chunks, current_chunk) ELSE chunks
           /\ current_chunk' = IF close THEN <<Last(current_chunk), cb_i>>
                               ELSE Append(current_chunk, cb_i)
           /\ current_tokens' = IF close THEN block_tokens
                                ELSE current_tokens + block_tokens
    /\ cb_i' = cb_i + 1
    /\ UNCHANGED <<cb_blocks, max_tokens, cb_pc>>
    /\ UNCHANGED <<ttVars, tbVars, dxVars, outVars>>

\* one iteration of `for i, block in enumerate(blocks)`
ChunkStep ==
    /\ cb_pc = "loop"
    /\ cb_i <= Len(cb_blocks)
    /\ LET block_tokens == cb_blocks[cb_i]
           close == /\ current_tokens + block_tokens
                           > QuartersPerToken * max_tokens
                    /\ current_chunk # <<>>
       IN  /\ chunks' = IF close THEN Append(chunks, current_chunk) ELSE chunks
           /\ current_chunk' = IF close THEN <<Last(current_chunk), cb_i>>
                               ELSE Append(current_chunk, cb_i)
           /\ current_tokens' =
                  IF close
                  THEN cb_blocks[Last(current_chunk)] + block_tokens
                  ELSE current_tokens + block_tokens
    /\ cb_i' = cb_i + 1
    /\ UNCHANGED <<cb_blocks, max_tokens, cb_pc>>
    /\ UNCHANGED <<ttVars, tbVars, dxVars, outVars>>

\* the end of the loop: the open chunk is appended and `chunks` returned
ChunkReturn ==
    /\ cb_pc = "loop"
    /\ cb_i > Len(cb_blocks)
    /\ chunks' = IF current_chunk # <<>> THEN Append(chunks, current_chunk)
                 ELSE chunks
    /\ cb_pc' = "returned"
    /\ UNCHANGED <<cb_blocks, max_tokens, current_chunk, current_tokens, cb_i>>
    /\ UNCHANGED <<ttVars, tbVars, dxVars, outVars>>

NextChunk == ChunkStep \/ ChunkReturn

SpecChunk == InitChunk /\ [][NextChunk]_vars

-----------------------------------------------------------------------------
(* Claims about chunk_blocks.                                              *)

RECURSIVE DropOverlap(_, _)
\* the chunks from the k-th on, concatenated, every chunk but the first of
\* all without its first block
DropOverlap(cs, k) ==
    IF k > Len(cs) THEN <<>>
    ELSE (IF k = 1 THEN cs[k] ELSE Tail(cs[k])) \o DropOverlap(cs, k + 1)

RECURSIVE SumLens(_)
SumLens(chunk) ==
    IF chunk = <<>> THEN 0 ELSE cb_blocks[Head(chunk)] + SumLens(Tail(chunk))

Members(chunk) == { chunk[k] : k \in 1..Len(chunk) }

\* C7: the chunks in order, the first block of every chunk but the first
\* removed, are the input sequence.
C7_ChunksReproduceInput ==
    cb_pc = "returned" =>
        DropOverlap(chunks, 1) = [i \in 1..Len(cb_blocks) |-> i]

\* an input cut into at least three chunks
C7_Witness ==
    cb_pc = "returned" /\ Len(chunks) >= 3 /\ Len(cb_blocks) = 4

\* C8: no chunk is empty, every block is in a chunk, a chunk lists its
\* blocks in input order, consecutive chunks share exactly one block (the
\* last of one is the first of the next), no block is in three chunks.
C8_ChunkShape ==
    cb_pc = "returned" =>
        /\ \A k \in 1..Len(chunks) : chunks[k] # <<>>
        /\ \A i \in 1..Len(cb_blocks) :
               \E k \in 1..Len(chunks) : i \in Members(chunks[k])
        /\ \A k \in 1..Len(chunks) :
               \A a, b \in 1..Len(chunks[k]) :
                   a < b => chunks[k][a] < chunks[k][b]
        /\ \A k \in 1..(Len(chunks) - 1) :
               /\ Head(chunks[k + 1]) = Last(chunks[k])
               /\ Cardinality(Members(chunks[k]) \cap Members(chunks[k + 1])) = 1
        /\ \A i \in 1..Len(cb_blocks) :
               Cardinality({ k \in 1..Len(chunks) : i \in Members(chunks[k]) }) <= 2

\* two chunks, the first of them holding several blocks
C8_Witness ==
    /\ cb_pc = "returned"
    /\ Len(chunks) = 2
    /\ Len(chunks[1]) = 3
    /\ chunks[2] = <<3, 4>>

\* C9 as stated: the estimated cost of every chunk, the carried block
\* included, is at most max_tokens.
C9_EveryChunkWithinBudget ==
    cb_pc = "returned" =>
        \A k \in 1..Len(chunks) :
            SumLens(chunks[k]) <= QuartersPerToken * max_tokens

\* the blocks of the k-th chunk that are not carried over from the one before
NewBlocks(k) == IF k = 1 THEN Len(chunks[k]) ELSE Len(chunks[k]) - 1

\* C9 amended: a chunk is within the budget as soon as it holds more than
\* one block of its own; only a chunk with a single new block may exceed.
C9_BudgetUnlessSingleNewBlock ==
    cb_pc = "returned" =>
        \A k \in 1..Len(chunks) :
            NewBlocks(k) >= 2 =>
                SumLens(chunks[k]) <= QuartersPerToken * max_tokens

\* a chunk of one carried and two new blocks that fills the budget next to
\* a chunk that exceeds it
C9_Witness ==
    /\ cb_pc = "returned"
    /\ \E k \in 1..Len(chunks) :
           /\ k > 1
           /\ NewBlocks(k) >= 2
           /\ cb_blocks[Head(chunks[k])] > 0
           /\ SumLens(chunks[k]) = QuartersPerToken * max_tokens
    /\ \E k \in 1..Len(chunks) :
           SumLens(chunks[k]) > QuartersPerToken * max_tokens

-----------------------------------------------------------------------------
(* extract_docx and rebuild_docx                                           *)

\* A document is [paragraphs, tables]; a paragraph is the sequence of the
\* texts of its runs; a table is a sequence of rows, a row a sequence of
\* cells, a cell the sequence of its paragraphs (python-docx: at least one).

RECURSIVE Concat(_)
Concat(ss) == IF ss = <<>> THEN <<>> ELSE Head(ss) \o Concat(Tail(ss))

\* Paragraph.text: the texts of the runs, concatenated
ParagraphText(para) == Concat(para)

\* _Cell.text: the texts of the paragraphs, joined by "\n"
CellText(cell) ==
    JoinLines([k \in 1..Len(cell) |-> ParagraphText(cell[k])])

SampleParagraphs ==
    { <<>>,                              \* no run
      << <<"a">> >>,                     \* one run
      << <<"a">>, <<"b">> >>,            \* two runs
      << <<" ">>, <<"b">> >> }           \* starts with a whitespace run

SampleCells ==
    { << <<>> >>,                        \* an empty cell
      << << <<"a">>, <<"b">> >> >>,      \* one paragraph of two runs
      << << <<"a">> >>, << <<"b">> >> >> }   \* two paragraphs

\* documents with up to MaxParas body paragraphs and no table or one table
\* of one row with up to MaxCols cells
Documents ==
    { [paragraphs |-> ps, tables |-> ts] :
        ps \in UNION { [1..n -> SampleParagraphs] : n \in 0..MaxParas },
        ts \in { <<>> } \cup
               { << <<row>> >> : row \in SeqsUpTo(SampleCells, MaxCols) } }

\* block ids: <<"para", i>> is para_<i>, <<"tbl", t, r, c>> is tbl<t>_r<r>_c<c>
ParagraphBlock(doc, para_idx) ==
    [ block_id |-> <<"para", para_idx>>,
      text |-> Strip(ParagraphText(doc.paragraphs[para_idx + 1])),
      paragraph_index |-> para_idx,
      is_table_cell |-> FALSE,
      table_index |-> -1, row_index |-> -1, col_index |-> -1 ]

CellBlock(doc, tbl_idx, row_idx, col_idx) ==
    [ block_id |-> <<"tbl", tbl_idx, row_idx, col_idx>>,
      text |-> Strip(CellText(doc.tables[tbl_idx + 1][row_idx + 1][col_idx + 1])),
      paragraph_index |-> -1,
      is_table_cell |-> TRUE,
      table_index |-> tbl_idx, row_index |-> row_idx, col_index |-> col_idx ]

HasText(block) == block.text # <<>>

\* extract_docx: the non-empty paragraphs, then the non-empty cells
extract_docx(doc) ==
    LET paras == [i \in 1..Len(doc.paragraphs) |-> ParagraphBlock(doc, i - 1)]
        cells ==
            Concat([t \in 1..Len(doc.tables) |->
                Concat([r \in 1..Len(doc.tables[t]) |->
                    [c \in 1..Len(doc.tables[t][r]) |->
                        CellBlock(doc, t - 1, r - 1, c - 1)]])])
    IN  SelectSeq(paras, HasText) \o SelectSeq(cells, HasText)

\* _replace_paragraph_text
_replace_paragraph_text(para, new_text) ==
    IF para = <<>>
    THEN <<new_text>>                                    \* para.add_run
    ELSE [k \in 1..Len(para) |-> IF k = 1 THEN new_text ELSE <<>>]

GetOrEmpty(tm, block) ==
    IF block.block_id \in DOMAIN tm THEN tm[block.block_id] ELSE <<>>

\* trans_map.get(block.block_id, block.text)
Get(tm, block) ==
    IF block.block_id \in DOMAIN tm THEN tm[block.block_id] ELSE block.text

\* Python indexing of a list of n items: seq[idx] raises IndexError unless
\* -n <= idx < n, and a negative idx counts from the end
PyInRange(idx, n) == idx >= -n /\ idx < n

PyAt(idx, n) == IF idx < 0 THEN n + idx + 1 ELSE idx + 1

\* the document being rebuilt, and whether an exception has left the loop
Ok(doc) == [doc |-> doc, raised |-> FALSE]

Raise(doc) == [doc |-> doc, raised |-> TRUE]

\* the body of `for block in extracted.blocks` of rebuild_docx; the
\* conditions of the `if` are evaluated left to right, each indexing the
\* container the previous one bounded from above only
RebuildBlock(doc, tm, block) ==
    IF block.is_table_cell
    THEN IF ~(block.table_index < Len(doc.tables)) THEN Ok(doc)
         ELSE IF ~PyInRange(block.table_index, Len(doc.tables)) THEN Raise(doc)
         ELSE
         LET t == PyAt(block.table_index, Len(doc.tables)) IN
         IF ~(block.row_index < Len(doc.tables[t])) THEN Ok(doc)
         ELSE IF ~PyInRange(block.row_index, Len(doc.tables[t])) THEN Raise(doc)
         ELSE
         LET r == PyAt(block.row_index, Len(doc.tables[t])) IN
         IF ~(block.col_index < Len(doc.tables[t][r])) THEN Ok(doc)
         ELSE IF ~PyInRange(block.col_index, Len(doc.tables[t][r]))
              THEN Raise(doc)
         ELSE
         LET c == PyAt(block.col_index, Len(doc.tables[t][r]))
             cell == doc.tables[t][r][c]
         IN  IF cell # <<>>
             THEN Ok([doc EXCEPT !.tables[t][r][c][1] =
                          _replace_paragraph_text(cell[1], Get(tm, block))])
             ELSE Ok(doc)
    ELSE IF ~(block.paragraph_index < Len(doc.paragraphs)) THEN Ok(doc)
         ELSE IF ~PyInRange(block.paragraph_index, Len(doc.paragraphs))
              THEN Raise(doc)
         ELSE Ok([doc EXCEPT
                    !.paragraphs[PyAt(block.paragraph_index,
                                      Len(doc.paragraphs))] =
                        _replace_paragraph_text(@, Get(tm, block))])

RECURSIVE RebuildFrom(_, _, _)
RebuildFrom(st, tm, bs) ==
    IF bs = <<>> \/ st.raised THEN st
    ELSE RebuildFrom(RebuildBlock(st.doc, tm, Head(bs)), tm, Tail(bs))

\* rebuild_docx: copy the source, substitute block by block, save.  An
\* exception leaves before doc.save, so output_path holds the plain copy.
rebuild_docx(doc, bs, tm) ==
    LET st == RebuildFrom(Ok(doc), tm, bs)
    IN  IF st.raised THEN Raise(doc) ELSE st

\* the translation maps handed to rebuild_docx: any subset of the block ids,
\* each translated to the same text
Translated == <<"X">>

TranslationMaps(bs) ==
    UNION { [ids -> {Translated}] :
              ids \in SUBSET { bs[k].block_id : k \in 1..Len(bs) } }

InitDocx ==
    /\ source_doc \in Documents
    /\ extracted = <<>>
    /\ trans_map = <<>>
    /\ output_doc = None
    /\ dx_pc = "extract"
    /\ IdleTt /\ IdleTb /\ IdleCb /\ IdleOut

ExtractDocx ==
    /\ dx_pc = "extract"
    /\ extracted' = extract_docx(source_doc)
    /\ dx_pc' = "rebuild"
    /\ UNCHANGED <<source_doc, trans_map, output_doc>>
    /\ UNCHANGED <<ttVars, tbVars, cbVars, outVars>>

RebuildDocx ==
    /\ dx_pc = "rebuild"
    /\ \E tm \in TranslationMaps(extracted) :
           LET res == rebuild_docx(source_doc, extracted, tm)
           IN  /\ trans_map' = tm
               /\ output_doc' = res.doc
               /\ dx_pc' = IF res.raised THEN "raised" ELSE "saved"
    /\ UNCHANGED <<source_doc, extracted>>
    /\ UNCHANGED <<ttVars, tbVars, cbVars, outVars>>

NextDocx == ExtractDocx \/ RebuildDocx

SpecDocx == InitDocx /\ [][NextDocx]_vars

-----------------------------------------------------------------------------
(* Claims about the DOCX round trip.                                       *)

\* C10: with an empty translation map the rebuilt document has the text of
\* the source: every body paragraph and every table cell, cells of several
\* paragraphs included, reads the same.
C10_EmptyMapKeepsText ==
    (dx_pc = "saved" /\ DOMAIN trans_map = {}) =>
        /\ \A i \in 1..Len(source_doc.paragraphs) :
               ParagraphText(output_doc.paragraphs[i])
                   = ParagraphText(source_doc.paragraphs[i])
        /\ \A t \in 1..Len(source_doc.tables) :
               \A r \in 1..Len(source_doc.tables[t]) :
                   \A c \in 1..Len(source_doc.tables[t][r]) :
                       CellText(output_doc.tables[t][r][c])
                           = CellText(source_doc.tables[t][r][c])

-----------------------------------------------------------------------------
(* extract_pptx and rebuild_pptx                                           *)

\* A presentation is the sequence of its slides, a slide the sequence of its
\* shapes, a shape [has_text_frame, paragraphs]; a paragraph is the sequence
\* of the texts of its runs, as in a Word document.

Picture == [has_text_frame |-> FALSE, paragraphs |-> <<>>]

TextBox(paragraphs) == [has_text_frame |-> TRUE, paragraphs |-> paragraphs]

SampleSlides ==
    { <<>>,                                               \* no shape
      << Picture, TextBox(<< << <<"a">>, <<"b">> >> >>) >>,
      << TextBox(<< << <<"a">> >>, <<>>, << <<" ">>, <<"b">> >> >>) >>,
      << TextBox(<< << <<"a">> >> >>),
         TextBox(<< << <<"b">>, <<"c">> >> >>) >> }

Presentations == SeqsUpTo(SampleSlides, MaxSlides)

\* block id <<"s", i, j, k>> is s<i>_sh<j>_p<k>
PptxBlock(prs, slide_idx, shape_idx, para_idx) ==
    [ block_id |-> <<"s", slide_idx, shape_idx, para_idx>>,
      text |-> Strip(ParagraphText(
                   prs[slide_idx + 1][shape_idx + 1].paragraphs[para_idx + 1])),
      slide_index |-> slide_idx,
      shape_index |-> shape_idx,
      paragraph_index |-> para_idx ]

\* extract_pptx: the non-empty paragraphs of the shapes that have a text
\* frame, slide by slide
extract_pptx(prs) ==
    Concat([s \in 1..Len(prs) |->
        Concat([h \in 1..Len(prs[s]) |->
            IF prs[s][h].has_text_frame
            THEN SelectSeq([k \in 1..Len(prs[s][h].paragraphs) |->
                               PptxBlock(prs, s - 1, h - 1, k - 1)], HasText)
            ELSE <<>>])])

_replace_pptx_paragraph_keep_runs(para, new_text) ==
    IF para = <<>>
    THEN <<new_text>>
    ELSE [k \in 1..Len(para) |-> IF k = 1 THEN new_text ELSE para[k]]

\* _replace_pptx_paragraph
_replace_pptx_paragraph(para, new_text) ==
    IF para = <<>>
    THEN <<new_text>>                              \* para.add_run().text
    ELSE [k \in 1..Len(para) |-> IF k = 1 THEN new_text ELSE <<>>]

\* the body of `for block in extracted.blocks` of rebuild_pptx
RebuildPptxBlock(prs, tm, block) ==
    IF ~(block.slide_index < Len(prs)) THEN Ok(prs)
    ELSE IF ~PyInRange(block.slide_index, Len(prs)) THEN Raise(prs)
    ELSE
    LET s == PyAt(block.slide_index, Len(prs)) IN
    IF ~(block.shape_index < Len(prs[s])) THEN Ok(prs)
    ELSE IF ~PyInRange(block.shape_index, Len(prs[s])) THEN Raise(prs)
    ELSE
    LET h == PyAt(block.shape_index, Len(prs[s]))
        shape == prs[s][h]
    IN  IF ~shape.has_text_frame THEN Ok(prs)
        ELSE IF ~(block.paragraph_index < Len(shape.paragraphs)) THEN Ok(prs)
        ELSE IF ~PyInRange(block.paragraph_index, Len(shape.paragraphs))
             THEN Raise(prs)
        ELSE Ok([prs EXCEPT
                   ![s][h].paragraphs[PyAt(block.paragraph_index,
                                           Len(shape.paragraphs))] =
                       _replace_pptx_paragraph(@, Get(tm, block))])

RECURSIVE RebuildPptxFrom(_, _, _)
RebuildPptxFrom(st, tm, bs) ==
    IF bs = <<>> \/ st.raised THEN st
    ELSE RebuildPptxFrom(RebuildPptxBlock(st.doc, tm, Head(bs)), tm, Tail(bs))

\* rebuild_pptx: copy the source, substitute block by block, save
rebuild_pptx(prs, bs, tm) ==
    LET st == RebuildPptxFrom(Ok(prs), tm, bs)
    IN  IF st.raised THEN Raise(prs) ELSE st

InitPptx ==
    /\ px_source \in Presentations
    /\ px_extracted = <<>>
    /\ px_trans = <<>>
    /\ px_output = <<>>
    /\ px_pc = "extract"
    /\ IdleTt /\ IdleTb /\ IdleCb /\ IdleDx /\ IdleJob
    /\ IdlePd /\ IdleAu /\ IdleTs /\ IdleTf

ExtractPptx ==
    /\ px_pc = "extract"
    /\ px_extracted' = extract_pptx(px_source)
    /\ px_pc' = "rebuild"
    /\ UNCHANGED <<px_source, px_trans, px_output>>
    /\ UNCHANGED <<ttVars, tbVars, cbVars, dxVars, jobVars>>
    /\ UNCHANGED <<pdVars, auVars, tsVars, tfVars>>

RebuildPptx ==
    /\ px_pc = "rebuild"
    /\ \E tm \in TranslationMaps(px_extracted) :
           LET res == rebuild_pptx(px_source, px_extracted, tm)
           IN  /\ px_trans' = tm
               /\ px_output' = res.doc
               /\ px_pc' = IF res.raised THEN "raised" ELSE "saved"
    /\ UNCHANGED <<px_source, px_extracted>>
    /\ UNCHANGED <<ttVars, tbVars, cbVars, dxVars, jobVars>>
    /\ UNCHANGED <<pdVars, auVars, tsVars, tfVars>>

NextPptx == ExtractPptx \/ RebuildPptx

SpecPptx == InitPptx /\ [][NextPptx]_vars

\* both document formats: a Word document or a presentation is extracted
\* and rebuilt
InitOffice == InitDocx \/ InitPptx

NextOffice == NextDocx \/ NextPptx

SpecOffice == InitOffice /\ [][NextOffice]_vars

\* rebuild_docx or rebuild_pptx called with a block list that holds, besides
\* the blocks of the document, one block made by the caller: its indices
\* are any integers of -MaxIndex..MaxIndex
IndexSamples == (0 - MaxIndex)..MaxIndex

StaleText == <<"s">>

StaleDocxBlocks ==
    { [ block_id |-> <<"para", i>>, text |-> StaleText,
        paragraph_index |-> i, is_table_cell |-> FALSE,
        table_index |-> -1, row_index |-> -1, col_index |-> -1 ] :
          i \in IndexSamples }
    \cup
    { [ block_id |-> <<"tbl", t, r, c>>, text |-> StaleText,
        paragraph_index |-> -1, is_table_cell |-> TRUE,
        table_index |-> t, row_index |-> r, col_index |-> c ] :
          t \in IndexSamples, r \in IndexSamples, c \in IndexSamples }

StalePptxBlocks ==
    { [ block_id |-> <<"s", i, j, k>>, text |-> StaleText,
        slide_index |-> i, shape_index |-> j, paragraph_index |-> k ] :
          i \in IndexSamples, j \in IndexSamples, k \in IndexSamples }

SampleDocuments ==
    { [paragraphs |-> <<>>, tables |-> <<>>],
      [paragraphs |-> << << <<"a">>, <<"b">> >>, << <<"c">> >> >>,
       tables |-> <<>>],
      [paragraphs |-> << << <<"a">> >> >>,
       tables |-> << << << << << <<"b">> >> >>,
                          << << <<"c">> >>, << <<"d">> >> >> >> >> >>] }

SamplePresentations ==
    { <<>>,
      << << Picture, TextBox(<< << <<"a">>, <<"b">> >> >>) >> >>,
      << << TextBox(<< << <<"a">> >>, <<>> >>) >>,
         << TextBox(<< << <<"b">> >> >>) >> >> }

\* the block of the caller comes first or last
WithStale(bs, stale) == { <<stale>> \o bs, bs \o <<stale>> }

InitMalformedDocx ==
    /\ source_doc \in SampleDocuments
    /\ \E stale \in StaleDocxBlocks :
           extracted \in WithStale(extract_docx(source_doc), stale)
    /\ trans_map = <<>>
    /\ output_doc = None
    /\ dx_pc = "rebuild"
    /\ IdleTt /\ IdleTb /\ IdleCb /\ IdleOut

InitMalformedPptx ==
    /\ px_source \in SamplePresentations
    /\ \E stale \in StalePptxBlocks :
           px_extracted \in WithStale(extract_pptx(px_source), stale)
    /\ px_trans = <<>>
    /\ px_output = <<>>
    /\ px_pc = "rebuild"
    /\ IdleTt /\ IdleTb /\ IdleCb /\ IdleDx /\ IdleJob
    /\ IdlePd /\ IdleAu /\ IdleTs /\ IdleTf

InitMalformed == InitMalformedDocx \/ InitMalformedPptx

NextMalformed == RebuildDocx \/ RebuildPptx

SpecMalformed == InitMalformed /\ [][NextMalformed]_vars

-----------------------------------------------------------------------------
(* Claims about the rebuilt Word documents and presentations.              *)

\* the index of a block names a container of the document
DocxResolves(doc, block) ==
    IF block.is_table_cell
    THEN /\ block.table_index \in 0..(Len(doc.tables) - 1)
         /\ block.row_index
                \in 0..(Len(doc.tables[block.table_index + 1]) - 1)
         /\ block.col_index
                \in 0..(Len(doc.tables[block.table_index + 1]
                                      [block.row_index + 1]) - 1)
    ELSE block.paragraph_index \in 0..(Len(doc.paragraphs) - 1)

PptxResolves(prs, block) ==
    /\ block.slide_index \in 0..(Len(prs) - 1)
    /\ block.shape_index \in 0..(Len(prs[block.slide_index + 1]) - 1)
    /\ LET shape == prs[block.slide_index + 1][block.shape_index + 1]
       IN  shape.has_text_frame =>
               block.paragraph_index \in 0..(Len(shape.paragraphs) - 1)

\* the document that substituting only the blocks that resolve gives
DocxOfResolving ==
    LET Keep(b) == DocxResolves(source_doc, b)
    IN  rebuild_docx(source_doc, SelectSeq(extracted, Keep), trans_map).doc

PptxOfResolving ==
    LET Keep(b) == PptxResolves(px_source, b)
    IN  rebuild_pptx(px_source, SelectSeq(px_extracted, Keep), px_trans).doc

\* C12: a block whose index does not resolve, too large or negative, is
\* skipped by rebuild_docx and rebuild_pptx: the call does not raise, and
\* the saved document is the one that substituting the other blocks gives.
C12_UnresolvedBlockSkipped ==
    /\ dx_pc \in {"saved", "raised"} =>
           dx_pc = "saved" /\ output_doc = DocxOfResolving
    /\ px_pc \in {"saved", "raised"} =>
           px_pc = "saved" /\ px_output = PptxOfResolving

\* the part of C12 about too large indices alone
TooLargeOnly ==
    /\ \A k \in 1..Len(extracted) :
           /\ extracted[k].is_table_cell =>
                  /\ extracted[k].table_index >= 0
                  /\ extracted[k].row_index >= 0
                  /\ extracted[k].col_index >= 0
           /\ ~extracted[k].is_table_cell => extracted[k].paragraph_index >= 0
    /\ \A k \in 1..Len(px_extracted) :
           /\ px_extracted[k].slide_index >= 0
           /\ px_extracted[k].shape_index >= 0
           /\ px_extracted[k].paragraph_index >= 0

C12_TooLargeSkipped == TooLargeOnly => C12_UnresolvedBlockSkipped

\* the run texts a paragraph holds after its substitution by new_text
Substituted(para, new_text) ==
    IF para = <<>> THEN <<new_text>>
    ELSE [j \in 1..Len(para) |-> IF j = 1 THEN new_text ELSE <<>>]

-----------------------------------------------------------------------------
(* rebuild_pdf                                                             *)

\* A size is <<width, height>>, a bounding box <<x0, y0, x1, y1>> with the
\* origin at the top left of the page (pdfplumber).  The canvas is
\* [pagesize, code, pages]: the size and the drawing calls of the page being
\* composed, and the pages already emitted, each [size, drawn].

SampleSizes == { <<300, 200>>, <<200, 300>> }

Blank == <<" ">>

\* the paragraphs extract_pdf may find on one page, in reading order
PageLayouts ==
    { <<>>,
      << [bbox |-> <<10, 20, 110, 40>>, text |-> <<"a", "&", "b">>,
          font_size |-> 16, is_header |-> TRUE] >>,
      << [bbox |-> <<10, 20, 110, 40>>, text |-> <<"a", "&", "b">>,
          font_size |-> 16, is_header |-> TRUE],
         [bbox |-> <<10, 50, 110, 70>>, text |-> <<"c", "<", "d">>,
          font_size |-> 8, is_header |-> FALSE] >> }

\* block id <<"p", n, k>> is p<n>_b<k>; `page` is 1-based
PdfBlock(page_num, block_idx, para) ==
    [ block_id |-> <<"p", page_num, block_idx>>,
      text |-> para.text,
      page |-> page_num,
      bbox |-> para.bbox,
      font_size |-> para.font_size,
      is_header |-> para.is_header ]

\* the blocks of a file whose page n holds layouts[n]
PdfBlocks(layouts) ==
    Concat([n \in 1..Len(layouts) |->
               [k \in 1..Len(layouts[n]) |->
                    PdfBlock(n, k - 1, layouts[n][k])]])

\* the translation maps handed to a reconstructor: any subset of the block
\* ids translated to the same text, and every id translated with one of the
\* translations blank
TextMaps(bs) ==
    LET ids == { bs[k].block_id : k \in 1..Len(bs) }
    IN  TranslationMaps(bs) \cup
        { [id \in ids |-> IF id = b THEN Blank ELSE Translated] : b \in ids }

\* str.replace of "&", "<", ">" and then "\n", one character at a time: no
\* replacement produces a character that a later one rewrites
EscapeChar(c) ==
    CASE c = "&" -> <<"&", "a", "m", "p", ";">>
      [] c = "<" -> <<"&", "l", "t", ";">>
      [] c = ">" -> <<"&", "g", "t", ";">>
      [] c = NL  -> <<"<", "b", "r", "/", ">">>
      [] OTHER   -> <<c>>

Escape(text) == Concat([k \in 1..Len(text) |-> EscapeChar(text[k])])

\* canvas.showPage, canvas.setPageSize, Paragraph.drawOn, canvas.save
NewCanvas(pagesize) == [pagesize |-> pagesize, code |-> <<>>, pages |-> <<>>]

showPage(c) ==
    [c EXCEPT !.pages = Append(@, [size |-> c.pagesize, drawn |-> c.code]),
              !.code = <<>>]

setPageSize(c, size) == [c EXCEPT !.pagesize = size]

drawOn(c, item) == [c EXCEPT !.code = Append(@, item)]

save(c) == IF c.code # <<>> THEN showPage(c).pages ELSE c.pages

DrawBlockFromTop(c, height, tm, block) ==
    LET translated == Get(tm, block)
    IN  IF Strip(translated) = <<>> THEN c
        ELSE drawOn(c, [ block_id |-> block.block_id,
                         markup |-> Escape(translated),
                         x |-> block.bbox[1],
                         y |-> height - block.bbox[2],
                         width |-> block.bbox[3] - block.bbox[1],
                         fontSize |-> Max({block.font_size, 10}),
                         header |-> block.is_header ])

\* the body of `for block in page_blocks`
DrawBlock(c, height, tm, block) ==
    LET translated == Get(tm, block)
    IN  IF Strip(translated) = <<>> THEN c
        ELSE drawOn(c, [ block_id |-> block.block_id,
                         markup |-> Escape(translated),
                         x |-> block.bbox[1],
                         y |-> height - block.bbox[4],
                         width |-> block.bbox[3] - block.bbox[1],
                         fontSize |-> Max({block.font_size, 10}),
                         header |-> block.is_header ])

RECURSIVE DrawBlocks(_, _, _, _)
DrawBlocks(c, height, tm, bs) ==
    IF bs = <<>> THEN c
    ELSE DrawBlocks(DrawBlock(c, height, tm, Head(bs)), height, tm, Tail(bs))

\* list.sort(key = (-bbox[1], bbox[0])), a stable sort
KeyLess(a, b) ==
    \/ 0 - a.bbox[2] < 0 - b.bbox[2]
    \/ a.bbox[2] = b.bbox[2] /\ a.bbox[1] < b.bbox[1]

RECURSIVE InsertByKey(_, _)
InsertByKey(sorted, b) ==
    IF sorted = <<>> THEN <<b>>
    ELSE IF KeyLess(b, Head(sorted)) THEN <<b>> \o sorted
    ELSE <<Head(sorted)>> \o InsertByKey(Tail(sorted), b)

RECURSIVE SortByKey(_)
SortByKey(bs) ==
    IF bs = <<>> THEN <<>>
    ELSE InsertByKey(SortByKey(SubSeq(bs, 1, Len(bs) - 1)), bs[Len(bs)])

\* blocks_by_page[page_num], sorted
BlocksOfPage(bs, page_num) ==
    LET OnPage(b) == b.page - 1 = page_num
    IN  SortByKey(SelectSeq(bs, OnPage))

\* the body of `for page_num in sorted(blocks_by_page.keys())`
DrawPage(c, page_sizes, bs, tm, page_num) ==
    LET c1 == IF page_num > 0 THEN showPage(c) ELSE c
        known == page_num >= 0 /\ page_num < Len(page_sizes)
        size == IF known THEN page_sizes[page_num + 1] ELSE page_sizes[1]
        c2 == IF known THEN setPageSize(c1, size) ELSE c1
    IN  DrawBlocks(c2, size[2], tm, BlocksOfPage(bs, page_num))

RECURSIVE DrawPages(_, _, _, _, _)
DrawPages(c, page_sizes, bs, tm, page_nums) ==
    IF page_nums = {} THEN c
    ELSE LET page_num == Min(page_nums)
         IN  DrawPages(DrawPage(c, page_sizes, bs, tm, page_num),
                       page_sizes, bs, tm, page_nums \ {page_num})

\* rebuild_pdf: the pages of the file written at output_path
rebuild_pdf(sizes, bs, tm) ==
    LET page_sizes == IF sizes = <<>> THEN << <<595, 842>> >> ELSE sizes
        keys == { bs[k].page - 1 : k \in 1..Len(bs) }
    IN  save(DrawPages(NewCanvas(page_sizes[1]), page_sizes, bs, tm, keys))

\* a file of up to MaxPages pages of which one at least holds text:
\* translate_file raises before the rebuild when no block was extracted
InitPdf ==
    /\ \E n \in 1..MaxPages :
           /\ pd_page_sizes \in [1..n -> SampleSizes]
           /\ \E layouts \in [1..n -> PageLayouts] :
                  pd_blocks = PdfBlocks(layouts)
    /\ pd_blocks # <<>>
    /\ pd_trans = <<>>
    /\ pd_pages = <<>>
    /\ pd_pc = "rebuild"
    /\ IdleTt /\ IdleTb /\ IdleCb /\ IdleDx /\ IdleJob
    /\ IdlePx /\ IdleAu /\ IdleTs /\ IdleTf

RebuildPdf ==
    /\ pd_pc = "rebuild"
    /\ \E tm \in TextMaps(pd_blocks) :
           /\ pd_trans' = tm
           /\ pd_pages' = rebuild_pdf(pd_page_sizes, pd_blocks, tm)
    /\ pd_pc' = "saved"
    /\ UNCHANGED <<pd_page_sizes, pd_blocks>>
    /\ UNCHANGED <<ttVars, tbVars, cbVars, dxVars, jobVars>>
    /\ UNCHANGED <<pxVars, auVars, tsVars, tfVars>>

NextPdf == RebuildPdf

SpecPdf == InitPdf /\ [][NextPdf]_vars

-----------------------------------------------------------------------------
(* Claims about the rebuilt PDF.                                           *)

\* the drawing calls of output page p, and the blocks that are drawn
DrawnOn(p) ==
    { pd_pages[p].drawn[k].block_id : k \in 1..Len(pd_pages[p].drawn) }

DrawnBlocks ==
    { k \in 1..Len(pd_blocks) : Strip(Get(pd_trans, pd_blocks[k])) # <<>> }

\* C14: rebuild_pdf emits one page per page of the original, in page order
\* and with that page's size, and draws a block of original page p on
\* output page p, also when pages of the original (the first included) hold
\* no block.
C14_OnePagePerOriginalPage ==
    pd_pc = "saved" =>
        /\ Len(pd_pages) = Len(pd_page_sizes)
        /\ \A p \in 1..Len(pd_pages) : pd_pages[p].size = pd_page_sizes[p]
        /\ \A k \in DrawnBlocks :
               /\ pd_blocks[k].page <= Len(pd_pages)
               /\ pd_blocks[k].block_id \in DrawnOn(pd_blocks[k].page)

\* C15: every drawn block with bounding box (x0, y0, x1, y1) is drawn at
\* (x0, H - y1), H being the height of the block's own page of the
\* original; bbox (10, 20, 110, 40) on a page of height 200 is drawn at
\* (10, 160).
C15_RenderOrigin ==
    pd_pc = "saved" =>
        \A p \in 1..Len(pd_pages) :
            \A j \in 1..Len(pd_pages[p].drawn) :
                LET item == pd_pages[p].drawn[j]
                IN  \A k \in 1..Len(pd_blocks) :
                        pd_blocks[k].block_id = item.block_id =>
                            /\ item.x = pd_blocks[k].bbox[1]
                            /\ item.y = pd_page_sizes[pd_blocks[k].page][2]
                                            - pd_blocks[k].bbox[4]

\* the block of bounding box (10, 20, 110, 40) of a second page of height
\* 200 was drawn at (10, 160), the first page being of height 300
C15_Witness ==
    /\ pd_pc = "saved"
    /\ Len(pd_page_sizes) >= 2
    /\ pd_page_sizes[1][2] = 300
    /\ pd_page_sizes[2][2] = 200
    /\ \E p \in 1..Len(pd_pages) :
           \E j \in 1..Len(pd_pages[p].drawn) :
               /\ pd_pages[p].drawn[j].block_id = <<"p", 2, 0>>
               /\ pd_pages[p].drawn[j].x = 10
               /\ pd_pages[p].drawn[j].y = 160

-----------------------------------------------------------------------------
(* Python floats (IEEE 754 binary64), for the times of audio segments.     *)

\* A non-negative float is the natural number of its multiples of
\* 2^(-LimbBits * FracLimbs), written as the sequence of its digits in base
\* 2^LimbBits, the least significant first and the most significant last
\* (no leading zero; zero is <<>>).  Every operation computes the exact
\* result and rounds it to MantissaBits significant binary digits, ties to
\* even.  FracLimbs is large enough for the rounding position of a time of
\* a millisecond or more never to fall below the last digit kept.

MantissaBits == 53

LimbBits == 10

Base == 2 ^ LimbBits

Zeros(k) == [i \in 1..k |-> 0]

Digit(a, i) == IF i <= Len(a) THEN a[i] ELSE 0

Trim(a) ==
    LET set == { i \in 1..Len(a) : a[i] # 0 }
    IN  IF set = {} THEN <<>> ELSE SubSeq(a, 1, Max(set))

\* the digits of an integer below 2^30, and the integer of a few digits
LimbsOf(n) ==
    Trim([i \in 1..3 |-> (n \div Base ^ (i - 1)) % Base])

IntOf(a) ==
    Digit(a, 1) + Base * Digit(a, 2) + Base * Base * Digit(a, 3)

\* a + b
LimbAdd(a, b) ==
    LET len == Max({Len(a), Len(b)})
        carry[i \in 0..len] ==
            IF i = 0 THEN 0
            ELSE (Digit(a, i) + Digit(b, i) + carry[i - 1]) \div Base
    IN  Trim([i \in 1..(len + 1) |->
                 (Digit(a, i) + Digit(b, i) + carry[i - 1]) % Base])

\* a - b, for a >= b
LimbSub(a, b) ==
    LET borrow[i \in 0..Len(a)] ==
            IF i = 0 THEN 0
            ELSE IF Digit(a, i) - Digit(b, i) - borrow[i - 1] < 0 THEN 1 ELSE 0
    IN  Trim([i \in 1..Len(a) |->
                 (Digit(a, i) - Digit(b, i) - borrow[i - 1]) % Base])

\* a * k for an integer k below 2^16
LimbMul(a, k) ==
    LET len == Len(a) + 2
        carry[i \in 0..len] ==
            IF i = 0 THEN 0 ELSE (Digit(a, i) * k + carry[i - 1]) \div Base
    IN  Trim([i \in 1..len |-> (Digit(a, i) * k + carry[i - 1]) % Base])

\* the quotient and the remainder of a by an integer d below 2^16: long
\* division from the most significant digit, rem[i] being the remainder of
\* the i topmost digits
LimbDiv(a, d) ==
    LET len == Len(a)
        rem[i \in 0..len] ==
            IF i = 0 THEN 0 ELSE (Base * rem[i - 1] + a[len - i + 1]) % d
    IN  [q |-> Trim([p \in 1..len |-> (Base * rem[len - p] + a[p]) \div d]),
         r |-> rem[len]]

\* the number of binary digits of a, and its binary digit j (from 0)
BitLen(a) ==
    IF a = <<>> THEN 0
    ELSE LimbBits * (Len(a) - 1)
             + Min({ k \in 1..LimbBits : a[Len(a)] < 2 ^ k })

Bit(a, j) == (Digit(a, j \div LimbBits + 1) \div 2 ^ (j % LimbBits)) % 2

\* round to nearest, ties to even; `inexact` tells that the exact value
\* lies strictly above a
RoundFloat(a, inexact) ==
    IF BitLen(a) <= MantissaBits THEN a
    ELSE LET d == BitLen(a) - MantissaBits         \* binary digits dropped
             w == d \div LimbBits
             unit == 2 ^ (d % LimbBits)
             kept == Trim([i \in 1..Len(a) |->
                              IF i <= w THEN 0
                              ELSE IF i = w + 1 THEN (a[i] \div unit) * unit
                              ELSE a[i]])
             sticky == inexact \/ \E j \in 0..(d - 2) : Bit(a, j) = 1
             up == Bit(a, d - 1) = 1 /\ (sticky \/ Bit(a, d) = 1)
         IN  IF up THEN LimbAdd(kept, Zeros(w) \o <<unit>>) ELSE kept

\* the float nearest to n / d, as the literal or the parsed decimal gives it
FloatOfRatio(n, d) ==
    LET res == LimbDiv(Zeros(FracLimbs) \o LimbsOf(n), d)
    IN  RoundFloat(res.q, res.r # 0)

FloatAdd(x, y) == RoundFloat(LimbAdd(x, y), FALSE)

FloatSub(x, y) == RoundFloat(LimbSub(x, y), FALSE)

\* float * int, the int being converted to a float without loss
FloatMulInt(x, k) == RoundFloat(LimbMul(x, k), FALSE)

\* int(x): the whole part
FloatToInt(x) == IntOf(SubSeq(x, FracLimbs + 1, Len(x)))

\* x % 1: the fractional part, which is exact
FloatMod1(x) ==
    Trim(SubSeq(x, 1, IF Len(x) < FracLimbs THEN Len(x) ELSE FracLimbs))

\* x < y
FloatLess(x, y) ==
    LET differ == { i \in 1..Max({Len(x), Len(y)}) : Digit(x, i) # Digit(y, i) }
    IN  differ # {} /\ Digit(x, Max(differ)) < Digit(y, Max(differ))

-----------------------------------------------------------------------------
(* _format_srt_timestamp                                                   *)

DecimalDigits == <<"0", "1", "2", "3", "4", "5", "6", "7", "8", "9">>

\* str(n) for n >= 0
RECURSIVE IntStr(_)
IntStr(n) ==
    IF n < 10 THEN <<DecimalDigits[n + 1]>>
    ELSE IntStr(n \div 10) \o <<DecimalDigits[(n % 10) + 1]>>

\* f"{n:0<width>d}"
ZeroPad(n, width) ==
    LET digits == IntStr(n)
    IN  [i \in 1..(width - Len(digits)) |-> "0"] \o digits

\* _format_srt_timestamp.  `seconds // 3600`, `seconds % 3600`, `// 60` and
\* `seconds % 60` are exact on floats (the remainder of a float division is
\* exact, and the quotients are whole numbers), so that they are the
\* quotients and remainders of the whole part of `seconds`; the product
\* `(seconds % 1) * 1000` is rounded, and int() truncates it.
_format_srt_timestamp(seconds) ==
    LET whole == FloatToInt(seconds)
        hours == whole \div 3600
        minutes == (whole % 3600) \div 60
        secs == whole % 60
        millis == FloatToInt(FloatMulInt(FloatMod1(seconds), 1000))
    IN  ZeroPad(hours, 2) \o <<":">> \o ZeroPad(minutes, 2) \o <<":">>
            \o ZeroPad(secs, 2) \o <<",">> \o ZeroPad(millis, 3)

\* times of whole milliseconds: a dense range, and some longer ones
SampleMillis == { 4350, 125400, 3599999, 3600000, 86399999 }

InitTimestamp ==
    /\ ts_millis \in 0..MaxMillis \cup SampleMillis
    /\ ts_result = <<>>
    /\ ts_pc = "call"
    /\ IdleTt /\ IdleTb /\ IdleCb /\ IdleDx /\ IdleJob
    /\ IdlePx /\ IdlePd /\ IdleAu /\ IdleTf

\* one call of _format_srt_timestamp with the float of ts_millis / 1000
FormatSrtTimestamp ==
    /\ ts_pc = "call"
    /\ ts_result' = _format_srt_timestamp(FloatOfRatio(ts_millis, 1000))
    /\ ts_pc' = "returned"
    /\ UNCHANGED ts_millis
    /\ UNCHANGED <<ttVars, tbVars, cbVars, dxVars, jobVars>>
    /\ UNCHANGED <<pxVars, pdVars, auVars, tfVars>>

NextTimestamp == FormatSrtTimestamp

SpecTimestamp == InitTimestamp /\ [][NextTimestamp]_vars

-----------------------------------------------------------------------------
(* Claims about _format_srt_timestamp.                                     *)

ExpectedStamp(t) ==
    ZeroPad(t \div 3600000, 2) \o <<":">>
        \o ZeroPad((t \div 60000) % 60, 2) \o <<":">>
        \o ZeroPad((t \div 1000) % 60, 2) \o <<",">>
        \o ZeroPad(t % 1000, 3)

\* C17: for a time of t whole milliseconds _format_srt_timestamp returns
\* HH:MM:SS,mmm with HH = t div 3600000, MM = (t div 60000) mod 60,
\* SS = (t div 1000) mod 60 and mmm = t mod 1000, zero-padded.
C17_StampOfMillis ==
    ts_pc = "returned" => ts_result = ExpectedStamp(ts_millis)

\* the hours, minutes and seconds of C17 alone
C17_StampOfSeconds ==
    ts_pc = "returned" =>
        SubSeq(ts_result, 1, 8) = SubSeq(ExpectedStamp(ts_millis), 1, 8)

\* the example of C17: 125.4 seconds gives 00:02:05,400
C17_Example ==
    (ts_pc = "returned" /\ ts_millis = 125400) =>
        ts_result = <<"0", "0", ":", "0", "2", ":", "0", "5", ",",
                      "4", "0", "0">>

-----------------------------------------------------------------------------
(* rebuild_audio_output: subtitle file or synthesized audio                *)

\* The times of a block are written in hundredths of a second; the float
\* the program holds is Seconds(hundredths).  A path is [stem, ext], ext
\* being what os.path.splitext splits off.

Seconds(hundredths) == FloatOfRatio(hundredths, 100)

SampleTimes == { 0, 18, 68, 250 }

Nth(S, k) == CHOOSE t \in S : Cardinality({ u \in S : u <= t }) = k

\* block id <<"seg", i>> is seg_<i>
AudioBlock(seg_idx, start, end) ==
    [ block_id |-> <<"seg", seg_idx>>,
      text |-> <<"H", "i">>,
      start_time |-> start,
      end_time |-> end ]

\* the segments between up to MaxSegments + 1 of the sample times
AudioBlockLists ==
    { [k \in 1..(Cardinality(T) - 1) |->
           AudioBlock(k - 1, Nth(T, k), Nth(T, k + 1))] :
        T \in { U \in SUBSET SampleTimes :
                    Cardinality(U) \in 2..(MaxSegments + 1) } }

TwoLines == <<"X", NL, "Y">>

BrokenLines == <<"X", NL, NL, "Y">>

\* the translation maps of TextMaps, and every id translated with the
\* translation of the first block holding a line break or a blank line
AudioMaps(bs) ==
    LET ids == { bs[k].block_id : k \in 1..Len(bs) }
    IN  TextMaps(bs) \cup
        { [id \in ids |-> IF id = bs[1].block_id THEN t ELSE Translated] :
              t \in {TwoLines, BrokenLines} }

Mp3 == <<".", "m", "p", "3">>
Wav == <<".", "w", "a", "v">>
M4a == <<".", "m", "4", "a">>
Ogg == <<".", "o", "g", "g">>
Flac == <<".", "f", "l", "a", "c">>
Srt == <<".", "s", "r", "t">>

OutputExts == { Mp3, Wav, M4a, Ogg, Flac, Srt }

DefaultRate == 22050

SampleRates == { DefaultRate, 24000 }

\* the number of samples of the clip a synthesis call gives: shorter or
\* longer than any segment
ClipSamples == { 1000, 200000 }

\* the segments whose synthesis call raises, by position in `segments`
FailingSets(bs) == SUBSET (1..Len(bs))

SynthOutcomes == { "ok", "no_soundfile", "load_fails", "write_fails" }

\* generate_audio as rebuild_audio_output settles it from the extension
GenerateAudio(output_path, env) ==
    LET output_ext == Lower(output_path.ext)
    IN  IF output_ext \in {Mp3, Wav, M4a, Ogg} THEN TRUE
        ELSE IF output_ext = Srt THEN FALSE
        ELSE env.generate_audio

\* `generate_audio and HAS_TTS and config`
Attempted(output_path, env) ==
    GenerateAudio(output_path, env) /\ env.HAS_TTS /\ env.config

\* the environments of a call: which libraries are installed, whether a
\* config is passed, and, when the synthesis is attempted, what its steps
\* answer
\* (what a call never consults is left at one value)
AudioEnvs(output_path, bs) ==
    { env \in [ HAS_TTS : BOOLEAN, config : BOOLEAN, generate_audio : BOOLEAN,
                synth : SynthOutcomes, samples : ClipSamples,
                failing : FailingSets(bs),
                sr : SampleRates, output_sample_rate : SampleRates,
                ffmpeg : BOOLEAN ] :
        /\ Lower(output_path.ext) \in {Mp3, Wav, M4a, Ogg, Srt} =>
               env.generate_audio
        /\ Lower(output_path.ext) # Mp3 => env.ffmpeg
        /\ ( \/ ~Attempted(output_path, env)
             \/ env.synth \in {"no_soundfile", "load_fails"} ) =>
               /\ env.samples = 1000
               /\ env.failing = {}
               /\ env.sr = DefaultRate
               /\ env.output_sample_rate = DefaultRate
               /\ env.ffmpeg
        /\ ~Attempted(output_path, env) => env.synth = "ok" }

Arrow == <<" ", "-", "-", ">", " ">>

\* the four writes of _generate_srt_file for one block
SrtRecord(idx, block, tm) ==
    IntStr(idx) \o <<NL>>
        \o _format_srt_timestamp(Seconds(block.start_time)) \o Arrow
        \o _format_srt_timestamp(Seconds(block.end_time)) \o <<NL>>
        \o Get(tm, block) \o <<NL>>
        \o <<NL>>

\* _generate_srt_file: the text of the file
_generate_srt_file(bs, tm) ==
    Concat([idx \in 1..Len(bs) |-> SrtRecord(idx, bs[idx], tm)])

SrtFile(content) ==
    [kind |-> "srt", content |-> content,
     rate |-> 0, length |-> 0, written |-> <<>>, spoken |-> <<>>]

AudioFile(rate, length, written, spoken) ==
    [kind |-> "audio", content |-> <<>>,
     rate |-> rate, length |-> length, written |-> written, spoken |-> spoken]

\* the list `segments`
Segments(bs, tm) ==
    LET Spoken(block) == Strip(Get(tm, block)) # <<>>
        kept == SelectSeq(bs, Spoken)
    IN  [j \in 1..Len(kept) |->
            [ text |-> Get(tm, kept[j]),
              start_time |-> Seconds(kept[j].start_time),
              end_time |-> Seconds(kept[j].end_time),
              duration |-> FloatSub(Seconds(kept[j].end_time),
                                    Seconds(kept[j].start_time)) ]]

\* the synthesis loop: the clips of the segments from j on, sample_rate
\* being the rate read with the last clip.  A clip is `samples` samples
\* made at `rate`, silence when the call raised.
RECURSIVE Synthesize(_, _, _, _)
Synthesize(segments, env, j, sample_rate) ==
    IF j > Len(segments) THEN <<>>
    ELSE IF j \notin env.failing
    THEN << [samples |-> env.samples, rate |-> env.sr, silent |-> FALSE,
             start_time |-> segments[j].start_time,
             duration |-> segments[j].duration] >>
         \o Synthesize(segments, env, j + 1, env.sr)
    ELSE << [samples |-> FloatToInt(FloatMulInt(segments[j].duration,
                                                sample_rate)),
             rate |-> sample_rate, silent |-> TRUE,
             start_time |-> segments[j].start_time,
             duration |-> segments[j].duration] >>
         \o Synthesize(segments, env, j + 1, sample_rate)

\* max(seg['start_time'] + seg['duration'] for seg in audio_segments)
TotalDuration(audio_segments) ==
    LET ends == { FloatAdd(audio_segments[j].start_time,
                           audio_segments[j].duration) :
                      j \in 1..Len(audio_segments) }
    IN  CHOOSE x \in ends : \A y \in ends : ~FloatLess(x, y)

\* the body of `for seg_data in audio_segments`: the clip is cut or padded
\* to expected_samples and copied if it ends within the buffer.  Of the
\* samples copied the first `clip` are the clip's, made at `rate`, the
\* others the padding.
Place(written, total_samples, sample_rate, seg_data, j) ==
    LET start_sample == FloatToInt(FloatMulInt(seg_data.start_time, sample_rate))
        expected_samples == FloatToInt(FloatMulInt(seg_data.duration, sample_rate))
        end_sample == start_sample + expected_samples
    IN  IF end_sample <= total_samples
        THEN Append(written, [segment |-> j, start |-> start_sample,
                              samples |-> expected_samples,
                              clip |-> Min({seg_data.samples, expected_samples}),
                              rate |-> seg_data.rate,
                              silent |-> seg_data.silent])
        ELSE written

RECURSIVE PlaceFrom(_, _, _, _, _)
PlaceFrom(written, total_samples, sample_rate, audio_segments, j) ==
    IF j > Len(audio_segments) THEN written
    ELSE PlaceFrom(Place(written, total_samples, sample_rate,
                         audio_segments[j], j),
                   total_samples, sample_rate, audio_segments, j + 1)

WithExt(path, ext) == [path EXCEPT !.ext = ext]

Raised(path) == [raised |-> TRUE, path |-> path, file |-> SrtFile(<<>>)]

\* _generate_translated_audio
_generate_translated_audio(bs, tm, output_path, env) ==
    LET segments == Segments(bs, tm)
        audio_segments == Synthesize(segments, env, 1, DefaultRate)
        sample_rate == env.output_sample_rate
        total_samples ==
            FloatToInt(FloatMulInt(TotalDuration(audio_segments), sample_rate))
        written == PlaceFrom(<<>>, total_samples, sample_rate, audio_segments, 1)
        output_ext == Lower(output_path.ext)
        path == IF output_ext = Wav THEN output_path
                ELSE IF output_ext = Mp3
                THEN (IF env.ffmpeg THEN output_path
                      ELSE WithExt(output_path, Wav))
                ELSE IF output_ext # <<>> THEN WithExt(output_path, Wav)
                ELSE output_path
    IN  IF ~env.HAS_TTS \/ env.synth \in {"no_soundfile", "load_fails"}
        THEN Raised(output_path)
        ELSE IF segments = <<>> THEN Raised(output_path)
        ELSE IF env.synth = "write_fails" THEN Raised(output_path)
        ELSE [ raised |-> FALSE, path |-> path,
               file |-> AudioFile(sample_rate, total_samples, written,
                                  [j \in 1..Len(segments) |-> segments[j].text]) ]

\* rebuild_audio_output: the returned path and the file written there
rebuild_audio_output(bs, tm, output_path, env) ==
    LET generate_audio == GenerateAudio(output_path, env)
        audio == _generate_translated_audio(bs, tm, output_path, env)
        srt == SrtFile(_generate_srt_file(bs, tm))
    IN  IF generate_audio /\ env.HAS_TTS /\ env.config
        THEN IF audio.raised
             THEN [path |-> WithExt(output_path, Srt), file |-> srt]
             ELSE [path |-> audio.path, file |-> audio.file]
        ELSE IF generate_audio /\ ~env.HAS_TTS
             THEN [path |-> WithExt(output_path, Srt), file |-> srt]
             ELSE [path |-> output_path, file |-> srt]

InitAudio ==
    /\ au_blocks \in AudioBlockLists
    /\ au_trans \in AudioMaps(au_blocks)
    /\ au_output_path \in { [stem |-> <<"t", "_", "f", "r">>, ext |-> e] :
                              e \in OutputExts }
    /\ au_env \in AudioEnvs(au_output_path, au_blocks)
    /\ au_result = <<>>
    /\ au_pc = "rebuild"
    /\ IdleTt /\ IdleTb /\ IdleCb /\ IdleDx /\ IdleJob
    /\ IdlePx /\ IdlePd /\ IdleTs /\ IdleTf

RebuildAudioOutput ==
    /\ au_pc = "rebuild"
    /\ au_result' = rebuild_audio_output(au_blocks, au_trans, au_output_path,
                                         au_env)
    /\ au_pc' = "returned"
    /\ UNCHANGED <<au_blocks, au_trans, au_env, au_output_path>>
    /\ UNCHANGED <<ttVars, tbVars, cbVars, dxVars, jobVars>>
    /\ UNCHANGED <<pxVars, pdVars, tsVars, tfVars>>

NextAudio == RebuildAudioOutput

SpecAudio == InitAudio /\ [][NextAudio]_vars

\* the subtitle file was written: its lines (the last piece is what follows
\* the final line break)
SrtWritten == au_pc = "returned" /\ au_result.file.kind = "srt"

SrtLines == SplitLines(au_result.file.content)

TimingLine(block) ==
    _format_srt_timestamp(Seconds(block.start_time)) \o Arrow
        \o _format_srt_timestamp(Seconds(block.end_time))

\* lines 4(idx-1)+1 .. 4idx are the record of block idx
RecordOfBlock(lines, idx) ==
    /\ lines[4 * (idx - 1) + 1] = IntStr(idx)
    /\ lines[4 * (idx - 1) + 2] = TimingLine(au_blocks[idx])
    /\ lines[4 * (idx - 1) + 3] = Get(au_trans, au_blocks[idx])
    /\ lines[4 * idx] = <<>>

\* C16: the subtitle file holds exactly one record per block, in block
\* order, each record being four lines: the index line idx (1, 2, ..., n
\* without gap), the timing line of the block, its text line and a blank line.
C16_OneRecordPerBlock ==
    SrtWritten =>
        /\ Len(SrtLines) = 4 * Len(au_blocks) + 1
        /\ \A idx \in 1..Len(au_blocks) : RecordOfBlock(SrtLines, idx)

SingleLine(text) == \A k \in 1..Len(text) : text[k] # NL

\* C16, restricted: the records are as claimed when no translation holds a
\* line break.
C16_SingleLineRecords ==
    ( /\ SrtWritten
      /\ \A idx \in 1..Len(au_blocks) :
             SingleLine(Get(au_trans, au_blocks[idx])) ) =>
        /\ Len(SrtLines) = 4 * Len(au_blocks) + 1
        /\ \A idx \in 1..Len(au_blocks) : RecordOfBlock(SrtLines, idx)

\* C16: whatever the translations, the lines that are numbers followed by a
\* timing line are 1, 2, ..., n in this order.
C16_IndexLines ==
    SrtWritten =>
        LET at == { k \in 1..(Len(SrtLines) - 1) :
                      \E idx \in 1..Len(au_blocks) :
                          /\ SrtLines[k] = IntStr(idx)
                          /\ SrtLines[k + 1] = TimingLine(au_blocks[idx]) }
        IN  /\ Cardinality(at) = Len(au_blocks)
            /\ \A idx \in 1..Len(au_blocks) : SrtLines[Nth(at, idx)] = IntStr(idx)

\* a top-level step of the attempted synthesis raises
SynthesisRaises ==
    /\ Attempted(au_output_path, au_env)
    /\ \/ au_env.synth # "ok"
       \/ Segments(au_blocks, au_trans) = <<>>

SubtitleUnderSrt ==
    /\ au_result.file.kind = "srt"
    /\ au_result.path.ext = Srt

\* C18: when audio output is requested and the synthesis is unavailable
\* (library absent or no config) or a top-level step of it raises, the
\* returned path is that of a subtitle file with the extension .srt.
C18_FallbackIsSrt ==
    ( /\ au_pc = "returned"
      /\ GenerateAudio(au_output_path, au_env)
      /\ \/ ~au_env.HAS_TTS
         \/ ~au_env.config
         \/ SynthesisRaises ) =>
        SubtitleUnderSrt

\* C18, restricted: the fallback is a .srt file when the library is absent or
\* the attempted synthesis raises.
C18_FallbackWithoutLibraryOrAfterRaise ==
    ( /\ au_pc = "returned"
      /\ GenerateAudio(au_output_path, au_env)
      /\ \/ ~au_env.HAS_TTS
         \/ SynthesisRaises ) =>
        SubtitleUnderSrt

\* the audio file was written
AudioWritten == au_pc = "returned" /\ au_result.file.kind = "audio"

SamplesAt(seconds, rate) == FloatToInt(FloatMulInt(seconds, rate))

\* the clip of segment j lies in the buffer, int(duration * rate) samples
\* from sample int(start_time * rate) on
ClipWritten(segments, j) ==
    \E k \in 1..Len(au_result.file.written) :
        /\ au_result.file.written[k].segment = j
        /\ au_result.file.written[k].start
               = SamplesAt(segments[j].start_time, au_result.file.rate)
        /\ au_result.file.written[k].samples
               = SamplesAt(segments[j].duration, au_result.file.rate)

\* int(max(start_time + duration) * rate) over all blocks
BufferLengthOfBlocks ==
    LET ends == { FloatAdd(Seconds(au_blocks[k].start_time),
                           FloatSub(Seconds(au_blocks[k].end_time),
                                    Seconds(au_blocks[k].start_time))) :
                      k \in 1..Len(au_blocks) }
    IN  SamplesAt(CHOOSE x \in ends : \A y \in ends : ~FloatLess(x, y),
                  au_result.file.rate)

\* C20: in synthesis mode the clip of every segment is written, cut or
\* padded to int(duration * rate) samples, from sample int(start_time * rate)
\* on, none is dropped, and the buffer is int(max(start_time + duration) *
\* rate) samples long, the maximum being over all blocks.
C20_EveryClipPlaced ==
    AudioWritten =>
        LET segments == Segments(au_blocks, au_trans)
        IN  /\ \A j \in 1..Len(segments) : ClipWritten(segments, j)
            /\ au_result.file.length = BufferLengthOfBlocks

\* C20, the part on the clips written: each one is int(duration * rate)
\* samples from int(start_time * rate) on, within the buffer, and the buffer
\* is int(max(start_time + duration) * rate) samples long, the maximum
\* being over the segments with a translation that is not blank.
C20_WrittenClipsExact ==
    AudioWritten =>
        LET segments == Segments(au_blocks, au_trans)
            written == au_result.file.written
        IN  /\ \A k \in 1..Len(written) :
                   /\ written[k].segment \in 1..Len(segments)
                   /\ ClipWritten(segments, written[k].segment)
                   /\ written[k].start + written[k].samples
                          <= au_result.file.length
            /\ au_result.file.length =
                   SamplesAt(TotalDuration(segments), au_result.file.rate)

\* C20, the part on dropped clips alone: when every block has a translation
\* that is not blank, the clip of every block is written.
C20_NoClipDroppedWhenAllTranslated ==
    ( /\ AudioWritten
      /\ Len(Segments(au_blocks, au_trans)) = Len(au_blocks) ) =>
        Len(au_result.file.written) = Len(au_blocks)

\* the segments of the call whose synthesis raised
FailedSegments ==
    au_env.failing \cap (1..Len(Segments(au_blocks, au_trans)))

\* the file the same call writes when no synthesis raises
FileWithoutFailure ==
    _generate_translated_audio(au_blocks, au_trans, au_output_path,
                               [au_env EXCEPT !.failing = {}]).file

\* the records written for segment j
WrittenFor(file, j) ==
    { file.written[k] : k \in { i \in 1..Len(file.written) :
                                   file.written[i].segment = j } }

\* C21: when the synthesis of a segment fails, silence of exactly
\* int(duration * rate) samples is written for it from sample
\* int(start_time * rate) on, the buffer is as long as when the segment
\* succeeds, and what is written for the other segments is the same.
C21_FailedSegmentIsSilence ==
    AudioWritten =>
        LET segments == Segments(au_blocks, au_trans)
        IN  /\ \A j \in FailedSegments :
                   /\ ClipWritten(segments, j)
                   /\ \A w \in WrittenFor(au_result.file, j) : w.silent
            /\ au_result.file.length = FileWithoutFailure.length
            /\ \A j \in (1..Len(segments)) \ FailedSegments :
                   WrittenFor(au_result.file, j)
                       = WrittenFor(FileWithoutFailure, j)

\* C21, against the run without failure: the buffer has the same length and
\* the same clips at the same places, silent where the synthesis failed and
\* equal where it did not.
C21_SameTimelineAsSuccess ==
    AudioWritten =>
        LET written == au_result.file.written
            other == FileWithoutFailure.written
        IN  /\ au_result.file.length = FileWithoutFailure.length
            /\ Len(written) = Len(other)
            /\ \A k \in 1..Len(written) :
                   /\ written[k].segment = other[k].segment
                   /\ written[k].start = other[k].start
                   /\ written[k].samples = other[k].samples
                   /\ written[k].silent = (written[k].segment \in FailedSegments)
                   /\ ~written[k].silent => written[k] = other[k]

\* C27: every clip written was made at the rate the buffer is sized and
\* saved with, and the silence of a failed segment was measured at that rate.
C27_OneWorkingRate ==
    AudioWritten =>
        \A k \in 1..Len(au_result.file.written) :
            au_result.file.written[k].rate = au_result.file.rate

\* C27, restricted: the rates agree when the rate read with the clips and
\* the rate of the model are both the default rate.
C27_DefaultRates ==
    ( /\ AudioWritten
      /\ au_env.sr = DefaultRate
      /\ au_env.output_sample_rate = DefaultRate ) =>
        \A k \in 1..Len(au_result.file.written) :
            au_result.file.written[k].rate = au_result.file.rate

-----------------------------------------------------------------------------
(* TranslationPipeline.translate_file called without an output path        *)

Pdf == <<".", "p", "d", "f">>
Docx == <<".", "d", "o", "c", "x">>
Doc == <<".", "d", "o", "c">>
Pptx == <<".", "p", "p", "t", "x">>
Ppt == <<".", "p", "p", "t">>
Mp4 == <<".", "m", "p", "4">>
Txt == <<".", "t", "x", "t">>
UpperPdf == <<".", "P", "D", "F">>
UpperWav == <<".", "W", "A", "V">>

InputExts ==
    { Pdf, Docx, Doc, Pptx, Ppt, Mp3, Mp4, Wav, M4a, Ogg, Flac, Txt,
      UpperPdf, UpperWav }

InputStems == { <<"a">>, <<"t", "k">> }

FrSuffix == <<"_", "f", "r">>

\* _detect_format: the format, or "unsupported" for the ValueError
_detect_format(input_path) ==
    LET ext == Lower(input_path.ext)
    IN  IF ext = Pdf THEN "pdf"
        ELSE IF ext \in {Docx, Doc} THEN "docx"
        ELSE IF ext \in {Pptx, Ppt} THEN "pptx"
        ELSE IF ext \in {Mp3, Mp4, Wav, M4a, Ogg, Flac} THEN "audio"
        ELSE "unsupported"

OutputPathSameName(input_path, format) ==
    [ dir |-> "output_dir", stem |-> input_path.stem, ext |-> input_path.ext ]

\* `if output_path is None:` of translate_file
OutputPath(input_path, format) ==
    LET input_stem == input_path.stem
        input_ext == Lower(input_path.ext)
    IN  IF format = "audio"
        THEN IF input_ext \in {Mp3, Wav, M4a, Ogg, Flac}
             THEN [ dir |-> "output_dir", stem |-> input_stem \o FrSuffix,
                    ext |-> input_ext ]
             ELSE [ dir |-> "output_dir", stem |-> input_stem \o FrSuffix,
                    ext |-> Wav ]
        ELSE [ dir |-> "output_dir", stem |-> input_stem \o FrSuffix,
               ext |-> input_path.ext ]

\* what extract_audio and translate_blocks hand to the reconstruction in the
\* runs of translate_file: one segment and its translation
HeardBlocks == << AudioBlock(0, 0, 18) >>

HeardTranslations == [ id \in { <<"seg", 0>> } |-> Translated ]

\* the outcomes of _extract: blocks, no block, or an exception (file missing
\* or empty, file the library cannot open)
ExtractOutcomes == { "blocks", "no_blocks", "raises" }

\* the environments of a call: _rebuild passes self.config and
\* generate_audio=True
PipelineEnvs(input_path) ==
    LET format == _detect_format(input_path)
        output_path == OutputPath(input_path, format)
        Quiet == [ HAS_TTS |-> FALSE, config |-> TRUE,
                   generate_audio |-> TRUE, synth |-> "ok",
                   samples |-> 1000, failing |-> {},
                   sr |-> DefaultRate, output_sample_rate |-> DefaultRate,
                   ffmpeg |-> TRUE ]
        Rebuilds(x) ==
            IF format = "audio" /\ x = "blocks"
            THEN { env \in AudioEnvs(output_path, HeardBlocks) :
                       env.config /\ env.generate_audio }
            ELSE { Quiet }
    IN  UNION { { [ extract |-> x, audio |-> a ] : a \in Rebuilds(x) } :
                  x \in ExtractOutcomes }

NoPath == [ dir |-> "", stem |-> <<>>, ext |-> <<>> ]

\* translate_file(input_path): the returned path, or raised
translate_file(input_path, env) ==
    LET format_type == _detect_format(input_path)
        output_path == OutputPath(input_path, format_type)
    IN  IF format_type = "unsupported"
        THEN [ raised |-> TRUE, path |-> NoPath ]
        ELSE IF format_type = "docx" /\ Lower(input_path.ext) = Doc
        THEN [ raised |-> TRUE, path |-> NoPath ]
        ELSE IF env.extract # "blocks"
        THEN [ raised |-> TRUE, path |-> NoPath ]
        ELSE IF format_type = "audio"
        THEN [ raised |-> FALSE,
               path |-> rebuild_audio_output(HeardBlocks, HeardTranslations,
                                             output_path, env.audio).path ]
        ELSE [ raised |-> FALSE, path |-> output_path ]

InitPipeline ==
    /\ tf_input \in { [stem |-> st, ext |-> e] :
                        st \in InputStems, e \in InputExts }
    /\ tf_env \in PipelineEnvs(tf_input)
    /\ tf_result = <<>>
    /\ tf_pc = "call"
    /\ IdleTt /\ IdleTb /\ IdleCb /\ IdleDx /\ IdleJob
    /\ IdlePx /\ IdlePd /\ IdleAu /\ IdleTs

TranslateFile ==
    /\ tf_pc = "call"
    /\ tf_result' = translate_file(tf_input, tf_env)
    /\ tf_pc' = "returned"
    /\ UNCHANGED <<tf_input, tf_env>>
    /\ UNCHANGED <<ttVars, tbVars, cbVars, dxVars, jobVars>>
    /\ UNCHANGED <<pxVars, pdVars, auVars, tsVars>>

NextPipeline == TranslateFile

SpecPipeline == InitPipeline /\ [][NextPipeline]_vars

Returned == tf_pc = "returned" /\ ~tf_result.raised

IsAudioInput == _detect_format(tf_input) = "audio"

Synthesized ==
    /\ tf_env.audio.HAS_TTS
    /\ tf_env.audio.synth = "ok"

-----------------------------------------------------------------------------
(* The reconstructors together: a Word document, a presentation, a PDF     *)
(* file or an audio file is rebuilt from its blocks and a translation map. *)

InitRebuild == InitDocx \/ InitPptx \/ InitPdf \/ InitAudio

NextRebuild == NextDocx \/ NextPptx \/ NextPdf \/ NextAudio

SpecRebuild == InitRebuild /\ [][NextRebuild]_vars

\* the text a block stands for under a translation map
Expected(tm, b) ==
    IF b.block_id \in DOMAIN tm THEN tm[b.block_id] ELSE b.text

\* what a ReportLab paragraph shows for a markup: the entities as their
\* characters, <br/> as a line break
RECURSIVE Shown(_)
Shown(markup) ==
    LET Rest(n) == SubSeq(markup, n + 1, Len(markup))
    IN  IF markup = <<>> THEN <<>>
        ELSE IF StartsWith(markup, <<"&", "a", "m", "p", ";">>)
        THEN <<"&">> \o Shown(Rest(5))
        ELSE IF StartsWith(markup, <<"&", "l", "t", ";">>)
        THEN <<"<">> \o Shown(Rest(4))
        ELSE IF StartsWith(markup, <<"&", "g", "t", ";">>)
        THEN <<">">> \o Shown(Rest(4))
        ELSE IF StartsWith(markup, <<"<", "b", "r", "/", ">">>)
        THEN <<NL>> \o Shown(Rest(5))
        ELSE <<markup[1]>> \o Shown(Rest(1))

\* the drawing calls of all the pages of the rebuilt PDF
AllDrawn == Concat([p \in 1..Len(pd_pages) |-> pd_pages[p].drawn])

\* the lines of the subtitle file after the header of record idx are the
\* lines of text, closed by an empty line
SrtTextIs(idx, text) ==
    LET lines == SrtLines
        textlines == SplitLines(text)
    IN  \E k \in 1..(Len(lines) - 1) :
            /\ lines[k] = IntStr(idx)
            /\ lines[k + 1] = TimingLine(au_blocks[idx])
            /\ k + 2 + Len(textlines) <= Len(lines)
            /\ SubSeq(lines, k + 2, k + 1 + Len(textlines)) = textlines
            /\ lines[k + 2 + Len(textlines)] = <<>>

NotBlank(text) == Strip(text) # <<>>

\* C11: in rebuild_docx, rebuild_pptx, rebuild_pdf, the subtitle file and
\* the speech synthesis, the text emitted for a block is translations[id]
\* when the id is a key of the map and the block's own text when it is not,
\* and no rebuild raises for a missing key.  (rebuild_pdf and the synthesis
\* emit nothing for a text that is blank.)
C11_EmittedTextIsLookup ==
    /\ dx_pc # "raised" /\ px_pc # "raised"
    /\ dx_pc = "saved" =>
           \A k \in 1..Len(extracted) :
               LET b == extracted[k]
               IN  IF b.is_table_cell
                   THEN ParagraphText(
                            output_doc.tables[b.table_index + 1]
                                [b.row_index + 1][b.col_index + 1][1])
                            = Expected(trans_map, b)
                   ELSE ParagraphText(
                            output_doc.paragraphs[b.paragraph_index + 1])
                            = Expected(trans_map, b)
    /\ px_pc = "saved" =>
           \A k \in 1..Len(px_extracted) :
               LET b == px_extracted[k]
               IN  ParagraphText(
                       px_output[b.slide_index + 1][b.shape_index + 1]
                           .paragraphs[b.paragraph_index + 1])
                       = Expected(px_trans, b)
    /\ pd_pc = "saved" =>
           /\ \A j \in 1..Len(AllDrawn) :
                  \E k \in 1..Len(pd_blocks) :
                      /\ pd_blocks[k].block_id = AllDrawn[j].block_id
                      /\ Shown(AllDrawn[j].markup)
                             = Expected(pd_trans, pd_blocks[k])
           /\ \A k \in 1..Len(pd_blocks) :
                  NotBlank(Expected(pd_trans, pd_blocks[k])) =>
                      \E j \in 1..Len(AllDrawn) :
                          AllDrawn[j].block_id = pd_blocks[k].block_id
    /\ SrtWritten =>
           \A idx \in 1..Len(au_blocks) :
               SrtTextIs(idx, Expected(au_trans, au_blocks[idx]))
    /\ AudioWritten =>
           LET Said(b) == NotBlank(Expected(au_trans, b))
               said == SelectSeq(au_blocks, Said)
           IN  au_result.file.spoken
                   = [j \in 1..Len(said) |-> Expected(au_trans, said[j])]

\* a PDF was rebuilt with one block in the map, drawn as its translation,
\* and one block missing from the map, drawn as its own text c<d
C11_Witness ==
    /\ pd_pc = "saved"
    /\ \E i, j \in 1..Len(AllDrawn) :
           /\ AllDrawn[i].block_id \in DOMAIN pd_trans
           /\ AllDrawn[i].markup = Translated
           /\ AllDrawn[j].block_id \notin DOMAIN pd_trans
           /\ AllDrawn[j].markup = <<"c", "&", "l", "t", ";", "d">>
           /\ Shown(AllDrawn[j].markup) = <<"c", "<", "d">>

-----------------------------------------------------------------------------
(* Error messages: str(e) and what run_translation shows for it            *)

\* Messages are strings; a path is written into a message as a string.
RECURSIVE Str(_)
Str(chars) == IF chars = <<>> THEN "" ELSE Head(chars) \o Str(Tail(chars))

\* str.lower() of a message, by halves
RECURSIVE LowerStr(_)
LowerStr(str) ==
    IF Len(str) = 0 THEN ""
    ELSE IF Len(str) = 1 THEN LowerChar(str)
    ELSE LET half == Len(str) \div 2
         IN  LowerStr(SubSeq(str, 1, half))
                 \o LowerStr(SubSeq(str, half + 1, Len(str)))

\* `part in str`
Contains(str, part) ==
    \E i \in 1..(Len(str) - Len(part) + 1) :
        SubSeq(str, i, i + Len(part) - 1) = part

\* os.path.basename(file_path) and file_path of a [dir, stem, ext]
BaseName(path) == Str(path.stem) \o Str(path.ext)

PathStr(path) == path.dir \o "/" \o BaseName(path)

\* the ValueError of extract_docx for a .doc extension
LegacyFormatMessage ==
    "The .doc format (old binary Word format) is not supported. "
        \o "python-docx only supports .docx (Office Open XML) format. "
        \o "Please convert your file to .docx format first. "
        \o "You can do this by:\n"
        \o "1. Opening the file in Microsoft Word and saving as .docx\n"
        \o "2. Using LibreOffice: soffice --convert-to docx yourfile.doc\n"
        \o "3. Using online converters"

\* the ValueError of extract_docx when _is_valid_docx fails
InvalidDocxMessage(path) ==
    "The file '" \o BaseName(path)
        \o "' is not a valid Word document (.docx). "
        \o "It may be:\n"
        \o "- A corrupted file\n"
        \o "- An old .doc format file (not supported)\n"
        \o "- A file with incorrect extension\n"
        \o "Please ensure the file is a valid .docx (Office Open XML) format."

\* _extract re-raises the ValueError of extract_docx with a prefix
WordDocumentError(message) ==
    "Failed to extract text from Word document: " \o message

EmptyFileMessage(path) == "File is empty: " \o PathStr(path)

NoBlocksMessage == "No text blocks found in document"

\* what a library says of a file it cannot read or write
LibraryMessage == "cannot open file"

LegacyRemediation ==
    "The .doc format (old binary Word format) is not supported. "
        \o "This system only supports .docx (Office Open XML) format.\n\n"
        \o "To fix this:\n"
        \o "1. Open the file in Microsoft Word and save as .docx\n"
        \o "2. Or use LibreOffice: soffice --convert-to docx yourfile.doc\n"
        \o "3. Or use an online converter\n\n"

InvalidDocumentNotice ==
    "The uploaded file is not a valid document format.\n\n"

ErrorShownPlain(error_msg) == error_msg

\* the `except Exception as e` branch of run_translation: job.error
ErrorShown(error_msg) ==
    LET lower == LowerStr(error_msg)
    IN  IF \/ Contains(lower, ".doc")
           \/ Contains(lower, "not a word file")
           \/ Contains(lower, "not a valid word")
        THEN LegacyRemediation \o "Original error: " \o error_msg
        ELSE IF Contains(lower, "not a valid") /\ Contains(lower, "document")
        THEN InvalidDocumentNotice \o "Details: " \o error_msg
        ELSE error_msg

-----------------------------------------------------------------------------
(* A job: run_translation (API background task) or main (command line),    *)
(* through the steps of translate_file                                     *)

JobId == <<"1", "a", "2", "b", "3", "c", "4", "d">>

\* the extensions of the files of a job (the API refuses the others)
JobExts == { Pdf, Docx, Doc, Pptx, Wav, Mp3 }

\* the file as found: readable, of size 0, or not what its extension says
Faults == { "none", "empty", "corrupt" }

\* the pages of a PDF file: their sizes and the blocks extract_pdf finds
SamplePdfs ==
    { [ sizes |-> << <<300, 200>> >>, blocks |-> bs ] :
        bs \in { <<>>,
                 PdfBlocks(<< << [bbox |-> <<10, 20, 110, 40>>,
                                  text |-> <<"a", "&", "b">>,
                                  font_size |-> 16, is_header |-> TRUE],
                                 [bbox |-> <<10, 50, 110, 70>>,
                                  text |-> <<"c", "<", "d">>,
                                  font_size |-> 8, is_header |-> FALSE]
                              >> >>) } }

\* the segments transcribed from an audio file
SampleRecordings == { <<>>, HeardBlocks }

\* a file that holds nothing: one field per format, the field of the
\* format of the file being the one that is read
NoContent ==
    [ docx |-> [paragraphs |-> <<>>, tables |-> <<>>],
      pptx |-> <<>>,
      pdf |-> [ sizes |-> << <<300, 200>> >>, blocks |-> <<>> ],
      audio |-> <<>> ]

\* what the readable file of a format holds
Contents(format) ==
    IF format = "docx"
    THEN { [NoContent EXCEPT !.docx = d] : d \in SampleDocuments }
    ELSE IF format = "pptx"
    THEN { [NoContent EXCEPT !.pptx = p] : p \in SamplePresentations }
    ELSE IF format = "pdf"
    THEN { [NoContent EXCEPT !.pdf = p] : p \in SamplePdfs }
    ELSE IF format = "audio"
    THEN { [NoContent EXCEPT !.audio = a] : a \in SampleRecordings }
    ELSE { NoContent }

\* the input paths: uploads/<job_id><ext> for the API, a path of the caller
\* for the command line (which may have any extension)
JobSources(mode) ==
    UNION { UNION { { [ dir |-> IF mode = "api" THEN "./uploads" ELSE ".",
                        stem |-> IF mode = "api" THEN JobId ELSE <<"r">>,
                        ext |-> e, fault |-> f, content |-> c ] :
                        c \in IF f = "none"
                              THEN Contents(_detect_format([ext |-> e]))
                              ELSE { NoContent } } :
                    f \in Faults } :
            e \in JobExts \cup (IF mode = "cli" THEN {Txt} ELSE {}) }

\* no synthesis library
NoSynthesis ==
    [ HAS_TTS |-> FALSE, config |-> TRUE, generate_audio |-> TRUE,
      synth |-> "ok", samples |-> 1000, failing |-> {},
      sr |-> DefaultRate, output_sample_rate |-> DefaultRate, ffmpeg |-> TRUE ]

\* whether the output directory can be written, and what the synthesis of an
\* audio job answers
JobEnvs(source) ==
    LET format == _detect_format(source)
        output_path == OutputPath(source, format)
        audio == IF format = "audio" /\ source.fault = "none"
                 THEN { env \in AudioEnvs(output_path, source.content.audio) :
                            /\ env.config /\ env.generate_audio
                            /\ env.samples = 1000
                            /\ env.sr = DefaultRate
                            /\ env.output_sample_rate = DefaultRate }
                 ELSE { NoSynthesis }
    IN  { [ write |-> w, audio |-> a ] : w \in {"ok", "raises"}, a \in audio }

NoError == ""

\* JobRecord(status="pending", progress=0, blocks_total=0, blocks_done=0)
NewJob ==
    [ status |-> "pending", progress |-> 0, blocks_total |-> 0,
      blocks_done |-> 0, output_path |-> NoPath, error |-> NoError ]

\* TranslationPipeline(config): no translator yet
NewPipeline ==
    [ translator |-> "none", closes |-> 0, requests |-> 0, artifact |-> FALSE ]

ProgressOfUnscaled(done, total) == done * 100

\* int((done / total) * 100) if total > 0 else 0
ProgressOf(done, total) ==
    IF total > 0
    THEN FloatToInt(FloatMulInt(FloatOfRatio(done, total), 100))
    ELSE 0

\* progress_callback of run_translation; the callback of main only prints
progress_callback(jr, done, total) ==
    IF jb_mode = "api"
    THEN [jr EXCEPT !.blocks_done = done, !.blocks_total = total,
                    !.progress = ProgressOf(done, total)]
    ELSE jr

\* _extract, with the checks of extract_docx: the blocks, or the message of
\* the exception
_extract(source, format) ==
    IF source.fault = "empty"
    THEN [raised |-> TRUE, message |-> EmptyFileMessage(source), blocks |-> <<>>]
    ELSE IF format = "docx" /\ Lower(source.ext) = Doc
    THEN [raised |-> TRUE,
          message |-> WordDocumentError(LegacyFormatMessage), blocks |-> <<>>]
    ELSE IF format = "docx" /\ source.fault = "corrupt"
    THEN [raised |-> TRUE,
          message |-> WordDocumentError(InvalidDocxMessage(source)),
          blocks |-> <<>>]
    ELSE IF source.fault = "corrupt" \/ Lower(source.ext) = Ppt
    THEN [raised |-> TRUE, message |-> LibraryMessage, blocks |-> <<>>]
    ELSE [raised |-> FALSE, message |-> "",
          blocks |-> IF format = "docx" THEN extract_docx(source.content.docx)
                     ELSE IF format = "pptx" THEN extract_pptx(source.content.pptx)
                     ELSE IF format = "pdf" THEN source.content.pdf.blocks
                     ELSE source.content.audio]

SynthesisOrRaise(res) ==
    [raised |-> res.path.ext = Srt, message |-> "synthesis failed",
     path |-> res.path, output |-> res.file]

_rebuild_or_raise(source, format, bs, tm, output_path, env) ==
    IF format = "audio" /\ env.write = "ok"
    THEN SynthesisOrRaise(rebuild_audio_output(bs, tm, output_path, env.audio))
    ELSE [raised |-> env.write = "raises", message |-> LibraryMessage,
          path |-> output_path, output |-> <<>>]

\* what _rebuild gives for the result of rebuild_docx or rebuild_pptx
OfficeRebuilt(res, output_path) ==
    [raised |-> res.raised,
     message |-> IF res.raised THEN "list index out of range" ELSE "",
     path |-> output_path, output |-> res.doc]

\* what _rebuild gives for the result of rebuild_audio_output
AudioRebuilt(res) ==
    [raised |-> FALSE, message |-> "", path |-> res.path, output |-> res.file]

\* _rebuild: the path returned and what is written there, or the message of
\* the exception
_rebuild(source, format, bs, tm, output_path, env) ==
    IF env.write = "raises"
    THEN [raised |-> TRUE, message |-> LibraryMessage,
          path |-> NoPath, output |-> <<>>]
    ELSE IF format = "docx"
    THEN OfficeRebuilt(rebuild_docx(source.content.docx, bs, tm), output_path)
    ELSE IF format = "pptx"
    THEN OfficeRebuilt(rebuild_pptx(source.content.pptx, bs, tm), output_path)
    ELSE IF format = "pdf"
    THEN [raised |-> FALSE, message |-> "", path |-> output_path,
          output |-> rebuild_pdf(source.content.pdf.sizes, bs, tm)]
    ELSE AudioRebuilt(rebuild_audio_output(bs, tm, output_path, env.audio))

InitJob ==
    /\ jb_mode \in {"api", "cli"}
    /\ jb_source \in JobSources(jb_mode)
    /\ jb_env \in JobEnvs(jb_source)
    /\ job = IF jb_mode = "api" THEN NewJob ELSE <<>>
    /\ jb_blocks = <<>>
    /\ jb_translations = <<>>
    /\ jb_pipeline = NewPipeline
    /\ jb_raised = ""
    /\ jb_result = <<>>
    /\ jb_pc = "pending"
    /\ IdleTt /\ IdleTb /\ IdleCb /\ IdleDx
    /\ IdlePx /\ IdlePd /\ IdleAu /\ IdleTs /\ IdleTf /\ IdlePe

JobRest ==
    /\ UNCHANGED <<jb_mode, jb_source, jb_env>>
    /\ UNCHANGED <<ttVars, tbVars, cbVars, dxVars>>
    /\ UNCHANGED <<pxVars, pdVars, auVars, tsVars, tfVars, peVars>>

\* run_translation up to the call of translate_file
StartJob ==
    /\ jb_pc = "pending"
    /\ job' = IF jb_mode = "api" THEN [job EXCEPT !.status = "running"] ELSE job
    /\ jb_pc' = "detect"
    /\ UNCHANGED <<jb_blocks, jb_translations, jb_pipeline, jb_raised, jb_result>>
    /\ JobRest

\* translate_file: _detect_format and progress_callback(0, 100, "extracting")
DetectFormat ==
    /\ jb_pc = "detect"
    /\ IF _detect_format(jb_source) = "unsupported"
       THEN /\ jb_raised' = "Unsupported file format: " \o Str(Lower(jb_source.ext))
            /\ jb_pc' = "raised"
            /\ job' = job
       ELSE /\ job' = progress_callback(job, 0, 100)
            /\ jb_pc' = "extract"
            /\ jb_raised' = jb_raised
    /\ UNCHANGED <<jb_blocks, jb_translations, jb_pipeline, jb_result>>
    /\ JobRest

ExtractWithoutTest ==
    /\ jb_pc = "extract"
    /\ LET res == _extract(jb_source, _detect_format(jb_source))
       IN  IF res.raised
           THEN /\ jb_raised' = res.message
                /\ jb_pc' = "raised"
                /\ UNCHANGED <<job, jb_blocks, jb_pipeline>>
           ELSE /\ jb_blocks' = res.blocks
                /\ jb_pipeline' = [jb_pipeline EXCEPT !.translator = "open"]
                /\ job' = progress_callback(job, 0, Len(res.blocks))
                /\ jb_pc' = "translate"
                /\ jb_raised' = jb_raised
    /\ UNCHANGED <<jb_translations, jb_result>>
    /\ JobRest

\* translate_file: _extract, the test of extracted.blocks, the creation of
\* the translator and progress_callback(0, len(blocks), "translating")
Extract ==
    /\ jb_pc = "extract"
    /\ LET res == _extract(jb_source, _detect_format(jb_source))
       IN  IF res.raised \/ res.blocks = <<>>
           THEN /\ jb_raised' = IF res.raised THEN res.message
                                ELSE NoBlocksMessage
                /\ jb_pc' = "raised"
                /\ UNCHANGED <<job, jb_blocks, jb_pipeline>>
           ELSE /\ jb_blocks' = res.blocks
                /\ jb_pipeline' = [jb_pipeline EXCEPT !.translator = "open"]
                /\ job' = progress_callback(job, 0, Len(res.blocks))
                /\ jb_pc' = "translate"
                /\ jb_raised' = jb_raised
    /\ UNCHANGED <<jb_translations, jb_result>>
    /\ JobRest

\* what the service answers to the request of a block: a failure, a
\* translation, or a reply that is empty or blank
JobOutcomes == BlockOutcomes \cup { Reply(<<" ">>), Reply(<<NL, NL>>) }

\* translate_one of one block, the blocks completing in any order: the
\* request, the store and the progress callback
TranslateOne ==
    /\ jb_pc = "translate"
    /\ \E k \in 1..Len(jb_blocks), outcome \in JobOutcomes :
           /\ jb_blocks[k].block_id \notin DOMAIN jb_translations
           /\ LET id == jb_blocks[k].block_id
                  stored == [ i \in DOMAIN jb_translations \cup {id} |->
                                IF i = id
                                THEN translate_text(jb_blocks[k].text, outcome)
                                ELSE jb_translations[i] ]
              IN  /\ jb_translations' = stored
                  /\ job' = progress_callback(job, Cardinality(DOMAIN stored),
                                              Len(jb_blocks))
    /\ jb_pipeline' = [jb_pipeline EXCEPT !.requests = @ + 1]
    /\ UNCHANGED <<jb_blocks, jb_raised, jb_result, jb_pc>>
    /\ JobRest

AllTranslated ==
    \A k \in 1..Len(jb_blocks) : jb_blocks[k].block_id \in DOMAIN jb_translations

\* translate_file after gather: the output path,
\* progress_callback(n, n, "rebuilding") and _rebuild
Rebuild ==
    /\ jb_pc = "translate"
    /\ AllTranslated
    /\ LET format == _detect_format(jb_source)
           res == _rebuild(jb_source, format, jb_blocks, jb_translations,
                           OutputPath(jb_source, format), jb_env)
       IN  /\ job' = progress_callback(job, Len(jb_blocks), Len(jb_blocks))
           /\ IF res.raised
              THEN /\ jb_raised' = res.message
                   /\ jb_pc' = "raised"
                   /\ UNCHANGED <<jb_result, jb_pipeline>>
              ELSE /\ jb_result' = [path |-> res.path, output |-> res.output]
                   /\ jb_pipeline' = [jb_pipeline EXCEPT !.artifact = TRUE]
                   /\ jb_pc' = "returned"
                   /\ jb_raised' = jb_raised
    /\ UNCHANGED <<jb_blocks, jb_translations>>
    /\ JobRest

MarkDoneWithoutPath ==
    /\ jb_pc = "returned"
    /\ job' = IF jb_mode = "api"
              THEN [job EXCEPT !.status = "done", !.progress = 100,
                               !.blocks_done = job.blocks_total]
              ELSE job
    /\ jb_pc' = "close"
    /\ UNCHANGED <<jb_blocks, jb_translations, jb_pipeline, jb_raised, jb_result>>
    /\ JobRest

\* run_translation after translate_file returned (main prints the path)
MarkDone ==
    /\ jb_pc = "returned"
    /\ job' = IF jb_mode = "api"
              THEN [job EXCEPT !.output_path = jb_result.path,
                               !.status = "done",
                               !.progress = 100,
                               !.blocks_done = job.blocks_total]
              ELSE job
    /\ jb_pc' = "close"
    /\ UNCHANGED <<jb_blocks, jb_translations, jb_pipeline, jb_raised, jb_result>>
    /\ JobRest

\* `except Exception as e` and `finally`: run_translation records the
\* failure and ends; main prints it and goes on to its `finally`
HandleFailure ==
    /\ jb_pc = "raised"
    /\ job' = IF jb_mode = "api"
              THEN [job EXCEPT !.status = "failed",
                               !.error = ErrorShown(jb_raised)]
              ELSE job
    /\ jb_pc' = IF jb_mode = "api" THEN "finished" ELSE "close"
    /\ UNCHANGED <<jb_blocks, jb_translations, jb_pipeline, jb_raised, jb_result>>
    /\ JobRest

\* TranslationPipeline.close: `if self.translator: await self.translator.close()`
ClosePipeline ==
    /\ jb_pc = "close"
    /\ jb_pipeline' = IF jb_pipeline.translator # "none"
                      THEN [jb_pipeline EXCEPT !.translator = "closed",
                                               !.closes = @ + 1]
                      ELSE jb_pipeline
    /\ jb_pc' = "finished"
    /\ UNCHANGED <<job, jb_blocks, jb_translations, jb_raised, jb_result>>
    /\ JobRest

NextJob ==
    \/ StartJob
    \/ DetectFormat
    \/ Extract
    \/ TranslateOne
    \/ Rebuild
    \/ MarkDone
    \/ HandleFailure
    \/ ClosePipeline

SpecJob == InitJob /\ [][NextJob]_vars

\* the call of translate_file is over: it returned or raised
CallOver == jb_pc \in {"returned", "raised", "close", "finished"}

\* extraction succeeded and found no block
ExtractedNothing ==
    LET format == _detect_format(jb_source)
        res == _extract(jb_source, format)
    IN  format # "unsupported" /\ ~res.raised /\ res.blocks = <<>>

\* C22: when extraction succeeds with zero blocks, translate_file raises
\* "No text blocks found in document", no translator is created, no
\* translation request is issued and no output artifact is written.
C22_EmptyExtractionFails ==
    (jb_mode # "idle" /\ CallOver /\ ExtractedNothing) =>
        /\ jb_raised = NoBlocksMessage
        /\ jb_pc # "returned"
        /\ jb_pipeline.requests = 0
        /\ jb_pipeline.translator = "none"
        /\ ~jb_pipeline.artifact

C22_Witness ==
    /\ jb_mode # "idle" /\ jb_pc = "finished" /\ ExtractedNothing
    /\ jb_raised = NoBlocksMessage

\* some translation request of the job failed (the source text was kept)
SomeTranslationFailed ==
    \E k \in 1..Len(jb_blocks) :
        /\ jb_blocks[k].block_id \in DOMAIN jb_translations
        /\ jb_translations[jb_blocks[k].block_id] = jb_blocks[k].text

\* the synthesis of an audio job fails as a whole or for some segment
SynthesisFails ==
    /\ _detect_format(jb_source) = "audio"
    /\ \/ ~jb_env.audio.HAS_TTS
       \/ jb_env.audio.synth # "ok"
       \/ jb_env.audio.failing # {}

C24_ClosedOnceAtEnd ==
    (jb_mode # "idle" /\ jb_pc = "finished") =>
        /\ jb_pipeline.translator # "open"
        /\ jb_pipeline.closes = IF jb_pipeline.translator = "none" THEN 0 ELSE 1

\* what holds of close: once on the success path and on every path of the
\* command line, and nothing to close when no translator was created
C24_ClosedOnceOutsideApiFailure ==
    (jb_mode # "idle" /\ jb_pc = "finished"
        /\ (jb_mode = "cli" \/ jb_raised = "")) =>
        /\ jb_pipeline.translator # "open"
        /\ jb_pipeline.closes = IF jb_pipeline.translator = "none" THEN 0 ELSE 1

\* the job of the API failed and its error is recorded
JobFailed == jb_mode = "api" /\ jb_pc = "finished" /\ job.status = "failed"

\* C25: the legacy-format remediation message is shown only when the file
\* has the legacy .doc extension.
C25_RemediationOnlyForLegacy ==
    (JobFailed /\ Contains(job.error, LegacyRemediation)) =>
        Lower(jb_source.ext) = Doc

\* what holds of the messages: the error shown ends with the message of
\* the cause, so the three causes are told apart by the tail of the text
C25_CauseInTail ==
    JobFailed =>
        /\ Contains(job.error, jb_raised)
        /\ (jb_source.fault = "empty") = Contains(job.error, "File is empty")
        /\ (Lower(jb_source.ext) = Docx /\ jb_source.fault = "corrupt")
               = Contains(job.error, "not a valid Word document")
        /\ (Lower(jb_source.ext) = Doc /\ jb_source.fault # "empty")
               = Contains(job.error, "python-docx only supports")

\* the status may change only along pending -> running -> done and
\* pending -> running -> failed
StatusStep ==
    (jb_mode = "api" /\ jb_pc # "idle" /\ jb_pc' # "idle"
        /\ job'.status # job.status) =>
        << job.status, job'.status >> \in
            { <<"pending", "running">>, <<"running", "done">>,
              <<"running", "failed">> }

StatusShape ==
    jb_mode = "api" =>
        /\ job.status \in {"pending", "running", "done", "failed"}
        /\ job.status = "done" =>
               /\ job.output_path # NoPath
               /\ job.progress = 100
               /\ job.blocks_done = job.blocks_total
        /\ job.status = "failed" =>
               /\ job.error # NoError
               /\ job.output_path = NoPath

ProgressInRange ==
    jb_mode = "api" =>
        /\ 0 <= job.blocks_done /\ job.blocks_done <= job.blocks_total
        /\ 0 <= job.progress /\ job.progress <= 100

ProgressStep ==
    (jb_mode = "api" /\ jb_pc # "idle" /\ jb_pc' # "idle") =>
        /\ job'.blocks_done >= job.blocks_done
        /\ job'.progress >= job.progress

\* C30: in every state of an API job 0 <= blocks_done <= blocks_total and
\* 0 <= progress <= 100, and no step of the job lowers blocks_done or
\* progress.
C30_ProgressMonotone == []ProgressInRange /\ [][ProgressStep]_vars

C30_Witness ==
    /\ jb_mode = "api" /\ jb_pc = "translate"
    /\ job.blocks_total = 3 /\ job.blocks_done = 2 /\ job.progress = 66

-----------------------------------------------------------------------------
(* extract_pdf: words into lines, lines into paragraphs, one block per     *)
(* paragraph                                                               *)

PageRows == 3           \* rows of words on a page
PageCols == 2           \* words of a row

\* the rows of a page: rows 1 and 2 are 2pt apart, row 3 follows a gap of
\* 28pt, a further row is again 2pt below
RowTop(r) == 100 + 12 * (r - 1) + (IF r >= 3 THEN 26 ELSE 0)

ColLeft(c) == 10 + 50 * (c - 1)

\* a word as page.extract_words(extra_attrs=["fontname", "size"]) gives it:
\* the words of a page are named a, b, c, ... in reading order
Word(r, c) ==
    [ text |-> << LowerLetters[(r - 1) * PageCols + c] >>,
      x0 |-> ColLeft(c), x1 |-> ColLeft(c) + 30,
      top |-> RowTop(r), bottom |-> RowTop(r) + 10,
      size |-> IF r = 1 THEN 16 ELSE 10 ]

Positions == (1..PageRows) \X (1..PageCols)

\* the words at the places S, top to bottom and left to right
RECURSIVE WordsFrom(_, _)
WordsFrom(S, k) ==
    IF k > PageRows * PageCols THEN <<>>
    ELSE LET r == ((k - 1) \div PageCols) + 1
             c == ((k - 1) % PageCols) + 1
         IN  (IF <<r, c>> \in S THEN << Word(r, c) >> ELSE <<>>)
                 \o WordsFrom(S, k + 1)

\* the pages: every choice of places, the page without words included
SamplePages == { WordsFrom(S, 1) : S \in SUBSET Positions }

Abs(n) == IF n < 0 THEN 0 - n ELSE n

\* the loop `for word in words`; word_y and current_y are kept doubled,
\* (top + bottom) instead of (top + bottom) / 2, and current_y is None
\* exactly at the first word
RECURSIVE GroupLines(_, _, _, _, _)
GroupLines(words, k, lines, current_line, current_y) ==
    IF k > Len(words)
    THEN IF current_line # <<>> THEN Append(lines, current_line) ELSE lines
    ELSE LET word == words[k]
             word_y == word.top + word.bottom
         IN  IF k = 1
             THEN GroupLines(words, k + 1, lines, <<word>>, word_y)
             ELSE IF Abs(word_y - current_y) < 2 * 5
             THEN GroupLines(words, k + 1, lines,
                             Append(current_line, word), current_y)
             ELSE GroupLines(words, k + 1,
                             IF current_line # <<>>
                             THEN Append(lines, current_line) ELSE lines,
                             <<word>>, word_y)

y_gap_threshold == 15

\* the loop `for line in lines`; prev_bottom is None exactly at the first
\* line
RECURSIVE GroupParagraphs(_, _, _, _, _)
GroupParagraphs(lines, k, paragraphs, current_para, prev_bottom) ==
    IF k > Len(lines)
    THEN IF current_para # <<>> THEN Append(paragraphs, current_para)
         ELSE paragraphs
    ELSE LET line == lines[k]
             line_top == Min({ line[j].top : j \in 1..Len(line) })
             line_bottom == Max({ line[j].bottom : j \in 1..Len(line) })
         IN  IF k = 1
             THEN GroupParagraphs(lines, k + 1, paragraphs, <<line>>,
                                  line_bottom)
             ELSE IF (line_top - prev_bottom) > y_gap_threshold
             THEN GroupParagraphs(lines, k + 1,
                                  IF current_para # <<>>
                                  THEN Append(paragraphs, current_para)
                                  ELSE paragraphs,
                                  <<line>>, line_bottom)
             ELSE GroupParagraphs(lines, k + 1, paragraphs,
                                  Append(current_para, line), line_bottom)

\* para_words.extend(line) for every line of the paragraph
RECURSIVE ParaWords(_)
ParaWords(para_lines) ==
    IF para_lines = <<>> THEN <<>>
    ELSE Head(para_lines) \o ParaWords(Tail(para_lines))

\* one step of the stable sort: w goes behind the words whose x0 is not
\* larger
RECURSIVE InsertByX0(_, _)
InsertByX0(sorted, w) ==
    IF sorted = <<>> THEN <<w>>
    ELSE IF Head(sorted).x0 <= w.x0
    THEN <<Head(sorted)>> \o InsertByX0(Tail(sorted), w)
    ELSE <<w>> \o sorted

\* sorted(para_words, key=lambda w: w["x0"])
RECURSIVE SortedByX0(_, _)
SortedByX0(para_words, k) ==
    IF k = 0 THEN <<>>
    ELSE InsertByX0(SortedByX0(para_words, k - 1), para_words[k])

\* " ".join(parts)
RECURSIVE JoinSpace(_)
JoinSpace(parts) ==
    IF parts = <<>> THEN <<>>
    ELSE IF Len(parts) = 1 THEN parts[1]
    ELSE parts[1] \o <<" ">> \o JoinSpace(Tail(parts))

\* text.split(): the runs of characters that are not whitespace
RECURSIVE SplitWords(_)
SplitWords(s) ==
    LET t == LStrip(s)
    IN  IF t = <<>> THEN <<>>
        ELSE LET n == IF \E k \in 1..Len(t) : t[k] \in Whitespace
                      THEN Min({ k \in 1..Len(t) : t[k] \in Whitespace }) - 1
                      ELSE Len(t)
             IN  << SubSeq(t, 1, n) >> \o SplitWords(SubSeq(t, n + 1, Len(t)))

\* the text of a paragraph
ParaText(para_words) ==
    LET sorted == SortedByX0(para_words, Len(para_words))
        text == JoinSpace([ j \in 1..Len(sorted) |-> sorted[j].text ])
    IN  JoinSpace(SplitWords(text))

RECURSIVE SumSizes(_)
SumSizes(para_words) ==
    IF para_words = <<>> THEN 0
    ELSE Head(para_words).size + SumSizes(Tail(para_words))

\* the blocks of the paragraphs from the k-th on (block_idx = k - 1); the
\* font size is kept as the sum and the number of the sizes, and
\* is_header = avg_font_size > 14 is decided on them
RECURSIVE ParagraphBlocks(_, _, _)
ParagraphBlocks(paragraphs, k, page_num) ==
    IF k > Len(paragraphs) THEN <<>>
    ELSE LET para_words == ParaWords(paragraphs[k])
             text == ParaText(para_words)
             ws == { para_words[j] : j \in 1..Len(para_words) }
             total == SumSizes(para_words)
             block ==
                 [ block_id |-> <<"p", page_num, "_b", k - 1>>,
                   text |-> text,
                   page |-> page_num,
                   bbox |-> << Min({ w.x0 : w \in ws }),
                               Min({ w.top : w \in ws }),
                               Max({ w.x1 : w \in ws }),
                               Max({ w.bottom : w \in ws }) >>,
                   is_header |-> total > 14 * Len(para_words) ]
         IN  (IF para_words = <<>> \/ Strip(text) = <<>> THEN <<>>
              ELSE <<block>>)
                 \o ParagraphBlocks(paragraphs, k + 1, page_num)

\* the body of `for page_num, page in enumerate(pdf.pages, start=1)`
ExtractPage(words, page_num) ==
    IF words = <<>> THEN <<>>
    ELSE LET lines == GroupLines(words, 1, <<>>, <<>>, 0)
             paragraphs == GroupParagraphs(lines, 1, <<>>, <<>>, 0)
         IN  ParagraphBlocks(paragraphs, 1, page_num)

\* extract_pdf: the blocks of the pages from the k-th on
RECURSIVE extract_pdf(_, _)
extract_pdf(pages, k) ==
    IF k > Len(pages) THEN <<>>
    ELSE ExtractPage(pages[k], k) \o extract_pdf(pages, k + 1)

InitExtractPdf ==
    /\ pe_words \in { <<page>> : page \in SamplePages }
    /\ pe_blocks = <<>>
    /\ pe_pc = "extract"
    /\ IdleTt /\ IdleTb /\ IdleCb /\ IdleDx
    /\ IdlePx /\ IdlePd /\ IdleAu /\ IdleTs /\ IdleTf /\ IdleJb

ExtractPdf ==
    /\ pe_pc = "extract"
    /\ pe_blocks' = extract_pdf(pe_words, 1)
    /\ pe_pc' = "returned"
    /\ UNCHANGED pe_words
    /\ UNCHANGED <<ttVars, tbVars, cbVars, dxVars, jbVars>>
    /\ UNCHANGED <<pxVars, pdVars, auVars, tsVars, tfVars>>

NextExtractPdf == ExtractPdf

SpecExtractPdf == InitExtractPdf /\ [][NextExtractPdf]_vars

\* the words of the paragraph of a block: the words of its page inside
\* its bounding box
WordsOf(block) ==
    LET words == pe_words[block.page]
    IN  { words[j] : j \in { i \in 1..Len(words) :
                               /\ block.bbox[2] <= words[i].top
                               /\ words[i].bottom <= block.bbox[4] } }

\* where the text of a word stands in the text of a block (0: nowhere)
PlaceIn(text, w) ==
    IF \E k \in 1..Len(text) : <<text[k]>> = w.text
    THEN Min({ k \in 1..Len(text) : <<text[k]>> = w.text })
    ELSE 0

\* C28: in the text of every block the words of an earlier line of the
\* paragraph stand before the words of a later line, and the words of one
\* line stand left to right.
C28_ReadingOrder ==
    pe_pc = "returned" =>
        \A b \in 1..Len(pe_blocks) :
            \A v \in WordsOf(pe_blocks[b]), w \in WordsOf(pe_blocks[b]) :
                ( \/ v.bottom <= w.top
                  \/ (v.top = w.top /\ v.x0 < w.x0) ) =>
                    /\ PlaceIn(pe_blocks[b].text, v) > 0
                    /\ PlaceIn(pe_blocks[b].text, v)
                           < PlaceIn(pe_blocks[b].text, w)

\* what holds of the text: every word of the paragraph once, separated by
\* single spaces, and the words of one line left to right
C28_OrderWithinLine ==
    pe_pc = "returned" =>
        \A b \in 1..Len(pe_blocks) :
            LET text == pe_blocks[b].text
                ws == WordsOf(pe_blocks[b])
            IN  /\ Len(text) = 2 * Cardinality(ws) - 1
                /\ \A v \in ws : PlaceIn(text, v) > 0
                /\ \A v \in ws, w \in ws :
                       (v.top = w.top /\ v.x0 < w.x0) =>
                           PlaceIn(text, v) < PlaceIn(text, w)

-----------------------------------------------------------------------------
(* translate_text alone and inside a job                                   *)

InitNonBlank == InitSanitize \/ InitJob

NextNonBlank == NextSanitize \/ NextJob

SpecNonBlank == InitNonBlank /\ [][NextNonBlank]_vars

\* translate_file returned
JobReturned == jb_pc \in {"returned", "close", "finished"} /\ jb_raised = ""

\* the block ids of the drawing calls of the pages of a PDF file
DrawnIds(pages) ==
    UNION { { pages[p].drawn[d].block_id : d \in 1..Len(pages[p].drawn) } :
            p \in 1..Len(pages) }

\* C29: for a source text that is not blank translate_text returns a text
\* that is not blank, whatever the service answered; so every translation
\* stored for a block of a job is not blank, rebuild_pdf draws every block
\* and the synthesis makes a segment of every block.
C29_NonBlankTranslations ==
    /\ (tt_pc = "returned" /\ NotBlank(tt_text)) => NotBlank(tt_result)
    /\ jb_mode # "idle" =>
           /\ \A k \in 1..Len(jb_blocks) :
                  ( /\ jb_blocks[k].block_id \in DOMAIN jb_translations
                    /\ NotBlank(jb_blocks[k].text) ) =>
                      NotBlank(jb_translations[jb_blocks[k].block_id])
           /\ (JobReturned /\ _detect_format(jb_source) = "pdf") =>
                  \A k \in 1..Len(jb_blocks) :
                      jb_blocks[k].block_id \in DrawnIds(jb_result.output)
           /\ (JobReturned /\ _detect_format(jb_source) = "audio"
                  /\ jb_result.output.kind = "audio") =>
                  Len(jb_result.output.spoken) = Len(jb_blocks)

C29_Witness ==
    /\ jb_mode # "idle" /\ jb_pc = "finished" /\ JobReturned
    /\ _detect_format(jb_source) = "pdf"
    /\ SomeTranslationFailed
    /\ Cardinality(DrawnIds(jb_result.output)) = 2

=============================================================================
